---- MODULE Spec2Model ----
(***************************************************************************)
(* Model of the module-level dependency analyzer src/cli-tool/index.js     *)
(* (the two-root version, lines 269..897): argument validation, directory  *)
(* traversal, module detection, import extraction (ts-morph path and regex *)
(* fallback), path resolution, edge aggregation and the written document.  *)
(*                                                                         *)
(* Strings are not decomposable in TLA+, so a file or directory NAME is    *)
(* the sequence of its dot-separated tokens ("helpers.test.ts" is          *)
(* <<"helpers","test","ts">>, ".b" is <<"","b">>, ".." is <<"","","">>),   *)
(* a PATH is the sequence of its names from the file-system root, and a    *)
(* module specifier is a flag (leading '/') plus a sequence of names.      *)
(***************************************************************************)
EXTENDS Integers, Sequences, FiniteSets, TLC

VARIABLES
    nargs,              \* process.argv.slice(2).length
    roots,              \* path.resolve of args[0] and of args[1]
    appKind, libsKind,  \* what fs finds at appPath / libsPath
    content,            \* file -> sequence of import statements (the text)
    parseFails,         \* files on which the ts-morph parse throws
    pc,                 \* position of the run
    exitCode,           \* "none" while running, then "0" or "1"
    allFiles,           \* [...appFiles, ...libFiles]
    modules,            \* Map moduleId -> module, in insertion order
    moduleDependencies, \* Map moduleId -> {imports, importedBy, importDetails}
    fileIdx,            \* index in allFiles of the file being processed
    sourceModuleId,     \* module of the file being processed
    imports,            \* resolved import records still to aggregate
    warnings,           \* files for which console.warn was called
    contributed,        \* history: file -> <<target, symbols>> it added
    output,             \* the document written by writeFileSync, or NoOutput
    now,                \* the clock read for generatedAt
    second,             \* TRUE in the second run on the same tree
    prevOutput,         \* the document of the first run
    extraFiles,         \* files of the tree besides TreeFiles
    resolveCall,        \* the last call of resolveImportPath on its own
    resolveResult,      \* what that call returned
    focusMode,          \* focus-modes.js: let focusMode
    focusedNode,        \* let focusedNode: <<>> for null, else <<nodeId>>
    connectionFocusMode, \* let connectionFocusMode
    focusedConnection,  \* let focusedConnection: <<>> for null, else <<key>>
    focusedPair,        \* history: the (sourceId, targetId) the key was made of
    focusCall,          \* history: the last call of a focus function
    graphDataCache,     \* part_005: Map cacheKey -> data, in insertion order
    pending,            \* callbacks of file loads that have not run yet
    loadResult          \* what the last validateAndLoadGraph returned

vars == <<nargs, roots, appKind, libsKind, content, parseFails, pc, exitCode,
          allFiles, modules, moduleDependencies, fileIdx, sourceModuleId,
          imports, warnings, contributed, output, now, second, prevOutput,
          extraFiles, resolveCall, resolveResult, focusMode, focusedNode,
          connectionFocusMode, focusedConnection, focusedPair, focusCall,
          graphDataCache, pending, loadResult>>

(***************************************************************************)
(* Bounds of the model.                                                    *)
(***************************************************************************)
\* total number of import statements in the file tree
MaxStmts == 2
\* number of files whose structured parse throws
MaxFail == 1

(***************************************************************************)
(* Generic sequence helpers.                                               *)
(***************************************************************************)
Last(s) == s[Len(s)]
Front(s) == SubSeq(s, 1, Len(s) - 1)
Range(s) == {s[i] : i \in 1..Len(s)}
Contains(s, e) == \E i \in 1..Len(s) : s[i] = e

RECURSIVE SumSeq(_)
SumSeq(s) == IF s = <<>> THEN 0 ELSE Head(s) + SumSeq(Tail(s))

\* Array.prototype.push in the place of Set.prototype.add
SetAddAsPush(s, e) == Append(s, e)

\* JavaScript Set.prototype.add / Map keys: insertion order, no duplicates
SetAdd(s, e) == IF Contains(s, e) THEN s ELSE Append(s, e)

(***************************************************************************)
(* Names and paths (node:path on POSIX).                                   *)
(***************************************************************************)
Dot == <<"", "">>
DotDot == <<"", "", "">>

\* String.prototype.toLowerCase on one token: the tokens of the universe are
\* lower-case, but for "TS", "SPEC" and "Tests"
Lower(tok) ==
    IF tok = "TS" THEN "ts"
    ELSE IF tok = "SPEC" THEN "spec"
    ELSE IF tok = "Tests" THEN "tests"
    ELSE tok

\* path.extname of one name: the part from the last '.', empty when the name
\* has no '.', when its only '.' is the first character, or when it is '..'
ExtName(name) ==
    IF Len(name) < 2 \/ (Len(name) = 2 /\ name[1] = "") \/ name = DotDot
    THEN <<>>
    ELSE <<Last(name)>>

\* path.extname(p)
PathExtName(p) == IF p = <<>> THEN <<>> ELSE ExtName(Last(p))

\* path.basename(name, path.extname(name))
BaseNameNoExt(name) == IF ExtName(name) = <<>> THEN name ELSE Front(name)

\* p + ext (string concatenation of an extension to a path)
AddExt(p, ext) ==
    IF p = <<>> THEN << <<"", ext>> >> ELSE Append(Front(p), Append(Last(p), ext))

\* String.prototype.startsWith('.') on a specifier whose first name is given
StartsWithDot(name) == Len(name) >= 2 /\ name[1] = ""

\* path.resolve / path.normalize: '.' is dropped, '..' pops (never above '/')
RECURSIVE Normalize(_, _)
Normalize(acc, segs) ==
    IF segs = <<>> THEN acc
    ELSE LET s == Head(segs) IN
         IF s = Dot THEN Normalize(acc, Tail(segs))
         ELSE IF s = DotDot
              THEN Normalize(IF acc = <<>> THEN <<>> ELSE Front(acc), Tail(segs))
              ELSE Normalize(Append(acc, s), Tail(segs))

\* path.resolve(fileDir, importPath)
PathResolve(fileDir, spec) ==
    IF spec.abs THEN Normalize(<<>>, spec.segs) ELSE Normalize(fileDir, spec.segs)

\* path.dirname of a path to a file
DirName(p) == IF p = <<>> THEN <<>> ELSE Front(p)

IsPrefix(a, b) == Len(a) <= Len(b) /\ SubSeq(b, 1, Len(a)) = a

\* length of the longest common leading part of two paths
RECURSIVE CommonLen(_, _)
CommonLen(a, b) ==
    IF a = <<>> \/ b = <<>> THEN 0
    ELSE IF Head(a) # Head(b) THEN 0
    ELSE 1 + CommonLen(Tail(a), Tail(b))

\* path.relative(from, to) of two absolute normalized paths
Relative(from, to) ==
    LET c == CommonLen(from, to) IN
    [i \in 1..(Len(from) - c) |-> DotDot] \o SubSeq(to, c + 1, Len(to))

\* proper string prefixes among the directory names of the universe
\* ("a" is a prefix of "apps")
NamePrefixes == {<< <<"a">>, <<"apps">> >>}

\* String.prototype.startsWith on two absolute paths: a string prefix may
\* end in the middle of a name
StartsWith(p, dir) ==
    \/ IsPrefix(dir, p)
    \/ /\ dir # <<>>
       /\ Len(p) >= Len(dir)
       /\ SubSeq(p, 1, Len(dir) - 1) = Front(dir)
       /\ <<Last(dir), p[Len(dir)]>> \in NamePrefixes

(***************************************************************************)
(* The file tree the tool is pointed at.                                   *)
(***************************************************************************)
\* the directories of the tree that are given as roots
DirP == << <<"p">> >>
DirA == << <<"p">>, <<"a">> >>
DirApps == << <<"p">>, <<"apps">> >>
DirAppsA == << <<"p">>, <<"apps">>, <<"a">> >>
DirLibs == << <<"p">>, <<"libs">> >>

\* appPath and libsPath of the run
AppPath == roots[1]
LibsPath == roots[2]

FileK == DirA \o << <<"k", "ts">> >>
FileFoo == DirApps \o << <<"", "b">>, <<"foo", "ts">> >>
FileX == DirApps \o << <<"a">>, <<"x", "ts">> >>
FileY == DirApps \o << <<"a">>, <<"y", "ts">> >>
FileNotes == DirApps \o << <<"a">>, <<"notes", "md">> >>
FileMain == DirApps \o << <<"main", "ts">> >>
FileDep == DirApps \o << <<"node_modules">>, <<"a">>, <<"x", "ts">> >>
FileHelpers == DirLibs \o << <<"util">>, <<"helpers", "ts">> >>
FileHelpersTest == DirLibs \o << <<"util">>, <<"helpers", "test", "ts">> >>

\* a test file some trees hold next to x.ts
FileXTest == DirApps \o << <<"a">>, <<"x", "test", "ts">> >>

TreeFiles == {FileK, FileFoo, FileX, FileY, FileNotes, FileMain, FileDep,
              FileHelpers, FileHelpersTest}

\* the pair of roots all but one specification is run with
DefaultRoots == <<DirApps, DirLibs>>

\* pairs of roots: apart, the first a string prefix of the second and the
\* reverse, the second inside the first and the reverse
RootPairs == {DefaultRoots, <<DirA, DirApps>>, <<DirApps, DirA>>,
              <<DirP, DirLibs>>, <<DirAppsA, DirApps>>}

\* the files whose text varies from tree to tree
Writable == {FileX, FileY, FileMain}

\* every name of the universe, in the order readdirSync lists them
NameOrder == << <<"", "b">>, <<"Tests">>, <<"__tests__">>, <<"a">>, <<"apps">>,
                <<"build">>, <<"d", "ts">>, <<"dist">>, <<"e", "ts">>,
                <<"foo", "ts">>, <<"helpers", "test", "ts">>, <<"helpers", "ts">>,
                <<"k", "ts">>, <<"libs">>, <<"main", "ts">>, <<"my_test", "ts">>,
                <<"node_modules">>, <<"notes", "md">>, <<"p">>, <<"t", "ts">>,
                <<"tests">>, <<"u", "ts">>, <<"util">>, <<"v", "ts">>,
                <<"w", "SPEC", "ts">>, <<"x", "test", "ts">>, <<"x", "ts">>,
                <<"y", "ts">>, <<"z", "TS">> >>

\* the directories of the tree
TreeDirs == UNION {{SubSeq(f, 1, k) : k \in 0..(Len(f) - 1)} : f \in TreeFiles}

RootKind(root) == IF root = AppPath THEN appKind ELSE libsKind

\* nothing is found below a root that is missing or a regular file
Present(p) == \A root \in {AppPath, LibsPath} : IsPrefix(root, p) => RootKind(root) = "dir"

\* stat.isFile()
IsFile(p) ==
    \/ p \in TreeFiles /\ Present(p)
    \/ \E root \in {AppPath, LibsPath} : RootKind(root) = "file" /\ p = root
    \/ p \in extraFiles

\* stat.isDirectory()
IsDirectory(p) ==
    \/ p \in TreeDirs /\ Present(p)
    \/ \E f \in extraFiles : Len(p) < Len(f) /\ IsPrefix(p, f)

\* fs.existsSync
ExistsSync(p) == IsFile(p) \/ IsDirectory(p)

RECURSIVE Reverse(_)
Reverse(s) == IF s = <<>> THEN <<>> ELSE Append(Reverse(Tail(s)), Head(s))

\* a listing whose order changes from one run to the next
ReaddirUnstable(dir) ==
    LET listing == SelectSeq(NameOrder, LAMBDA n : ExistsSync(Append(dir, n)))
    IN  IF second THEN Reverse(listing) ELSE listing

\* fs.readdirSync
Readdir(dir) == SelectSeq(NameOrder, LAMBDA n : ExistsSync(Append(dir, n)))

\* countLines: content.split('\n').length, one line per statement and a
\* trailing newline
Text(f) == IF f \in DOMAIN content THEN content[f] ELSE <<>>

CountLines(f) == Len(Text(f)) + 1


(***************************************************************************)
(* Import statements: the text of a file is a sequence of statements.      *)
(*   kind   "import" (an import declaration) or "require" (a call)         *)
(*   spec   the module specifier: abs (leading '/') and its names          *)
(*   named  the named imports, def / ns: a default / namespace import      *)
(***************************************************************************)
Rel(segs) == [abs |-> FALSE, segs |-> segs]
Abs(segs) == [abs |-> TRUE, segs |-> segs]

ImportDecl(spec, named, def, ns) ==
    [kind |-> "import", spec |-> spec, named |-> named, def |-> def, ns |-> ns]
RequireCall(spec) ==
    [kind |-> "require", spec |-> spec, named |-> <<>>, def |-> FALSE, ns |-> FALSE]

\* import { foo } from '../../libs/util/helpers'
StFoo == ImportDecl(Rel(<<DotDot, DotDot, <<"libs">>, <<"util">>, <<"helpers">> >>),
                    <<"foo">>, FALSE, FALSE)
\* import { bar } from '../../libs/util/helpers'
StBar == ImportDecl(Rel(<<DotDot, DotDot, <<"libs">>, <<"util">>, <<"helpers">> >>),
                    <<"bar">>, FALSE, FALSE)
\* const y = require('./y')
StReqY == RequireCall(Rel(<<Dot, <<"y">> >>))
\* import x from 'a/x'
StBare == ImportDecl(Rel(<< <<"a">>, <<"x">> >>), <<>>, TRUE, FALSE)
\* import z from '.b/foo'
StDotB == ImportDecl(Rel(<< <<"", "b">>, <<"foo">> >>), <<>>, TRUE, FALSE)
\* import m, * as ns from '../main'
StMain == ImportDecl(Rel(<<DotDot, <<"main">> >>), <<>>, TRUE, TRUE)
\* import { foo } from '/p/libs/util/helpers'
StAbs == ImportDecl(Abs(<< <<"p">>, <<"libs">>, <<"util">>, <<"helpers">> >>),
                    <<"foo">>, FALSE, FALSE)

Statements == {StFoo, StBar, StReqY, StBare, StDotB, StMain, StAbs}

\* the statements of file f among the placements g, in order
RECURSIVE TextOf(_, _)
TextOf(g, f) ==
    IF g = <<>> THEN <<>>
    ELSE (IF Head(g)[1] = f THEN <<Head(g)[2]>> ELSE <<>>) \o TextOf(Tail(g), f)

\* every way to write at most MaxStmts statements into the writable files
Placements == UNION {[1..n -> Writable \X Statements] : n \in 0..MaxStmts}

(***************************************************************************)
(* Import extraction and path resolution.                                  *)
(***************************************************************************)
\* the value null; no path of the universe
Null == << <<"null:">> >>

\* moduleSpecifier.startsWith('.') || moduleSpecifier.startsWith('/')
IsRelativeSpecifier(spec) ==
    spec.abs \/ (spec.segs # <<>> /\ StartsWithDot(Head(spec.segs)))

\* the symbols pushed for one import declaration: named imports, then
\* 'default', then '*'
DeclSymbols(st) ==
    st.named \o (IF st.def THEN <<"default">> ELSE <<>>)
             \o (IF st.ns THEN <<"*">> ELSE <<>>)

\* the import records the AST walk collects: the import declarations, then
\* the require(...) calls, each only with a relative specifier
AstImports(text) ==
    LET decls == SelectSeq(text, LAMBDA st :
                     st.kind = "import" /\ IsRelativeSpecifier(st.spec))
        calls == SelectSeq(text, LAMBDA st :
                     st.kind = "require" /\ IsRelativeSpecifier(st.spec))
    IN  [i \in 1..Len(decls) |->
            [path |-> decls[i].spec, symbols |-> DeclSymbols(decls[i])]]
        \o [i \in 1..Len(calls) |->
            [path |-> calls[i].spec, symbols |-> <<"default">>]]

\* importRegex matches an import with at most one clause ({...}, * as w, or
\* w) before 'from'; a default import followed by a second clause is no match
ImportRegexMatches(st) ==
    /\ st.kind = "import"
    /\ ~(st.def /\ (st.ns \/ st.named # <<>>))
    /\ ~(st.ns /\ st.named # <<>>)

\* requireRegex
RequireRegexMatches(st) == st.kind = "require"

\* the records of the regex scan: importRegex matches, then requireRegex
\* matches, specifier only
RegexImports(text) ==
    LET decls == SelectSeq(text, LAMBDA st :
                     ImportRegexMatches(st) /\ IsRelativeSpecifier(st.spec))
        calls == SelectSeq(text, LAMBDA st :
                     RequireRegexMatches(st) /\ IsRelativeSpecifier(st.spec))
    IN  [i \in 1..Len(decls) |-> [path |-> decls[i].spec, symbols |-> <<>>]]
        \o [i \in 1..Len(calls) |-> [path |-> calls[i].spec, symbols |-> <<>>]]

Extensions == <<"js", "jsx", "ts", "tsx", "mjs", "cjs">>

\* the first base + ext that exists, or Null
RECURSIVE FirstExisting(_, _)
FirstExisting(base, exts) ==
    IF exts = <<>> THEN Null
    ELSE IF ExistsSync(AddExt(base, Head(exts))) THEN AddExt(base, Head(exts))
    ELSE FirstExisting(base, Tail(exts))

\* ResolveImportPath trying the index files before the sibling files
ResolveImportPathIndexFirst(importPath, fileDir) ==
    LET resolvedPath == PathResolve(fileDir, importPath)
        direct == FirstExisting(resolvedPath, Extensions)
        index == FirstExisting(Append(resolvedPath, <<"index">>), Extensions)
    IN  IF PathExtName(resolvedPath) = <<>> /\ index # Null THEN index
        ELSE IF PathExtName(resolvedPath) = <<>> /\ direct # Null THEN direct
        ELSE IF ExistsSync(resolvedPath) THEN resolvedPath ELSE Null

ResolveImportPath(importPath, fileDir) ==
    LET resolvedPath == PathResolve(fileDir, importPath)
        direct == FirstExisting(resolvedPath, Extensions)
        index == FirstExisting(Append(resolvedPath, <<"index">>), Extensions)
    IN  IF PathExtName(resolvedPath) = <<>> /\ direct # Null THEN direct
        ELSE IF PathExtName(resolvedPath) = <<>> /\ index # Null THEN index
        ELSE IF ExistsSync(resolvedPath) THEN resolvedPath ELSE Null

\* commonBase: path.commonBase is not a function of node:path, so it is
\* path.dirname(appDir)
ProjectRoot == DirName(AppPath)

\* the resolution through sourceFile.getReferencedSourceFiles(): sourceFile is
\* a const of the try block above and out of scope here, the ReferenceError is
\* caught and resolvedPath stays null
TsMorphResolution(importInfo) == Null

\* the resolution loop shared by both parsers
ResolveAll(records, filePath) ==
    LET resolvedOf(r) ==
            IF TsMorphResolution(r) # Null THEN TsMorphResolution(r)
            ELSE ResolveImportPath(r.path, DirName(filePath))
        kept == SelectSeq(records, LAMBDA r :
                    resolvedOf(r) # Null /\ ExistsSync(resolvedOf(r)))
    IN  [i \in 1..Len(kept) |->
            [path |-> Relative(ProjectRoot, resolvedOf(kept[i])),
             symbols |-> kept[i].symbols]]

ParseImportsRegexFallback(filePath) == ResolveAll(RegexImports(Text(filePath)), filePath)

\* ParseImportsWithTsMorph falling back for every file once one parse throws
ParseImportsStickyFailure(filePath, collected) ==
    IF parseFails # {}
    THEN [warned |-> TRUE, imports |-> ParseImportsRegexFallback(filePath)]
    ELSE [warned |-> FALSE,
          imports |-> ResolveAll(AstImports(Text(filePath)), filePath)]

\* ParseImportsWithTsMorph keeping the records collected before the throw
ParseImportsKeepCollected(filePath, collected) ==
    IF filePath \in parseFails
    THEN [warned |-> TRUE,
          imports |-> ResolveAll(SubSeq(AstImports(Text(filePath)), 1, collected), filePath)
                      \o ParseImportsRegexFallback(filePath)]
    ELSE [warned |-> FALSE,
          imports |-> ResolveAll(AstImports(Text(filePath)), filePath)]

\* the records of one file and whether a warning was printed; when the parse
\* throws, the first `collected` records of the AST walk are dropped with
\* the exception
ParseImportsWithTsMorph(filePath, collected) ==
    IF filePath \in parseFails
    THEN [warned |-> TRUE, imports |-> ParseImportsRegexFallback(filePath)]
    ELSE [warned |-> FALSE,
          imports |-> ResolveAll(AstImports(Text(filePath)), filePath)]


(***************************************************************************)
(* File walker.                                                            *)
(***************************************************************************)
SourceExtensions == {"js", "jsx", "ts", "tsx", "mjs", "cjs"}

IsJsOrTsFile(p) ==
    PathExtName(p) # <<>> /\ Lower(PathExtName(p)[1]) \in SourceExtensions

\* tokens t of the universe with t.toLowerCase() ending in '_test' or '_spec'
UnderscoreTestTokens == {"my_test"}

\* directory names of the universe ending in '__tests__'
TestsDirNames == {<<"__tests__">>}

\* IsTestFile tagging no file
IsTestFileNever(p) == FALSE

\* basename.toLowerCase() has '.test.', '.spec.', '_test.' or '_spec.', or the
\* path as written has '__tests__/', '/test/' or '/tests/'
IsTestFile(p) ==
    LET basename == Last(p) IN
    \/ \E i \in 2..(Len(basename) - 1) : Lower(basename[i]) \in {"test", "spec"}
    \/ \E i \in 1..(Len(basename) - 1) : basename[i] \in UnderscoreTestTokens
    \/ \E i \in 1..(Len(p) - 1) : p[i] \in TestsDirNames \cup {<<"test">>, <<"tests">>}

\* SkippedDirs without 'build'
SkippedDirsNoBuild == {<<"node_modules">>, <<"", "git">>, <<"dist">>,
                       <<"coverage">>, <<"", "next">>}

SkippedDirs == {<<"node_modules">>, <<"", "git">>, <<"dist">>, <<"build">>,
                <<"coverage">>, <<"", "next">>}

\* traverseDirectory over the items of one readdirSync listing
RECURSIVE TraverseItems(_, _, _)
TraverseItems(dirPath, items, baseDir) ==
    IF items = <<>> THEN <<>>
    ELSE LET item == Head(items)
             fullPath == Append(dirPath, item)
             here == IF IsDirectory(fullPath)
                     THEN IF item \in SkippedDirs THEN <<>>
                          ELSE TraverseItems(fullPath, Readdir(fullPath), baseDir)
                     ELSE IF IsFile(fullPath) /\ IsJsOrTsFile(fullPath)
                          THEN <<[absolutePath |-> fullPath,
                                  relativePath |-> Relative(baseDir, fullPath),
                                  isTest |-> IsTestFile(fullPath)]>>
                          ELSE <<>>
         IN  here \o TraverseItems(dirPath, Tail(items), baseDir)

TraverseDirectory(dirPath, baseDir) == TraverseItems(dirPath, Readdir(dirPath), baseDir)

(***************************************************************************)
(* Module aggregator.                                                      *)
(***************************************************************************)
\* no module id (moduleId === null, or Map.get returning undefined)
NoModule == <<"none", <<>> >>

\* ModuleOf giving no module id to a file that sits directly in a root
ModuleOfSubdirsOnly(filePath) ==
    LET idUnder(label, root) ==
            LET pathParts == Relative(root, filePath) IN
            IF Len(pathParts) = 1 THEN NoModule ELSE <<label, pathParts[1]>>
    IN  IF StartsWith(filePath, AppPath)
        THEN [id |-> idUnder("apps", AppPath), type |-> "app"]
        ELSE IF StartsWith(filePath, LibsPath)
        THEN [id |-> idUnder("libs", LibsPath), type |-> "lib"]
        ELSE [id |-> NoModule, type |-> "none"]

\* the id and type of the module of one file path
ModuleOf(filePath) ==
    LET idUnder(label, root) ==
            LET pathParts == Relative(root, filePath) IN
            IF Len(pathParts) = 1
            THEN <<label, BaseNameNoExt(pathParts[1])>>
            ELSE <<label, pathParts[1]>>
    IN  IF StartsWith(filePath, AppPath)
        THEN [id |-> idUnder("apps", AppPath), type |-> "app"]
        ELSE IF StartsWith(filePath, LibsPath)
        THEN [id |-> idUnder("libs", LibsPath), type |-> "lib"]
        ELSE [id |-> NoModule, type |-> "none"]

ModuleIndex(mods, id) ==
    IF \E i \in 1..Len(mods) : mods[i].id = id
    THEN CHOOSE i \in 1..Len(mods) : mods[i].id = id
    ELSE 0

\* AddFileToModules without the `continue` on a test file
AddFileToModulesWithTests(mods, file) ==
    LET m == ModuleOf(file.absolutePath) IN
    IF m.id = NoModule THEN mods
    ELSE LET with == IF ModuleIndex(mods, m.id) = 0
                     THEN Append(mods, [id |-> m.id, type |-> m.type, files |-> <<>>,
                                        linesOfCode |-> 0, fileCount |-> 0])
                     ELSE mods
             i == ModuleIndex(with, m.id)
         IN  [with EXCEPT ![i] =
                 [@ EXCEPT !.files = Append(@, file),
                           !.linesOfCode = @ + CountLines(file.absolutePath),
                           !.fileCount = @ + 1]]

\* one iteration of the loop of detectModules
AddFileToModules(mods, file) ==
    LET m == ModuleOf(file.absolutePath) IN
    IF file.isTest \/ m.id = NoModule THEN mods
    ELSE LET with == IF ModuleIndex(mods, m.id) = 0
                     THEN Append(mods, [id |-> m.id, type |-> m.type, files |-> <<>>,
                                        linesOfCode |-> 0, fileCount |-> 0])
                     ELSE mods
             i == ModuleIndex(with, m.id)
         IN  [with EXCEPT ![i] =
                 [@ EXCEPT !.files = Append(@, file),
                           !.linesOfCode = @ + CountLines(file.absolutePath),
                           !.fileCount = @ + 1]]

RECURSIVE DetectModulesFrom(_, _)
DetectModulesFrom(mods, files) ==
    IF files = <<>> THEN mods
    ELSE DetectModulesFrom(AddFileToModules(mods, Head(files)), Tail(files))

DetectModules(files) == DetectModulesFrom(<<>>, files)

\* FileToModule computing the module from the path, in the place of the
\* lookup in the map of the files of the modules
FileToModuleByPath(mods, relativePath) ==
    ModuleOf(Normalize(ProjectRoot, relativePath)).id

\* fileToModuleMap.get(relativePath): the entries are set module by module,
\* file by file, and a later set of the same key replaces the earlier one
FileToModule(mods, relativePath) ==
    LET owners == {i \in 1..Len(mods) :
                      \E j \in 1..Len(mods[i].files) :
                          Relative(ProjectRoot, mods[i].files[j].absolutePath) = relativePath}
    IN  IF owners = {} THEN NoModule
        ELSE mods[CHOOSE i \in owners : \A k \in owners : k <= i].id

(***************************************************************************)
(* Edge aggregator.                                                        *)
(***************************************************************************)
NoDeps == [imports |-> <<>>, importedBy |-> <<>>, importDetails |-> <<>>]

\* the initialization of moduleDependencies: one empty entry per module
InitialDependencies(mods) == [id \in {mods[i].id : i \in 1..Len(mods)} |-> NoDeps]

DetailIndex(details, target) ==
    IF \E i \in 1..Len(details) : details[i].module = target
    THEN CHOOSE i \in 1..Len(details) : details[i].module = target
    ELSE 0

RECURSIVE AddAll(_, _)
AddAll(set, elems) ==
    IF elems = <<>> THEN set ELSE AddAll(SetAdd(set, Head(elems)), Tail(elems))

\* IsDependency without the comparison of the two module ids
IsDependencyAnyTarget(source, target) == target # NoModule

\* whether an import of a file of module source, resolved to module target,
\* is a module-level dependency
IsDependency(source, target) == target # NoModule /\ target # source

\* AddDependency with the symbols of the last import replacing the set
AddDependencyLastSymbols(deps, source, target, symbols) ==
    LET linked == [deps EXCEPT ![source].imports = SetAdd(@, target),
                               ![target].importedBy = SetAdd(@, source)]
        details == linked[source].importDetails
        with == IF DetailIndex(details, target) = 0
                THEN Append(details, [module |-> target, symbols |-> <<>>, count |-> 0])
                ELSE details
        i == DetailIndex(with, target)
    IN  [linked EXCEPT ![source].importDetails =
            [with EXCEPT ![i] = [@ EXCEPT !.count = @ + 1,
                                          !.symbols = AddAll(<<>>, symbols)]]]

\* AddDependency putting the detail of a new target before the others
AddDependencyNewFirst(deps, source, target, symbols) ==
    LET linked == [deps EXCEPT ![source].imports = SetAdd(@, target),
                               ![target].importedBy = SetAdd(@, source)]
        details == linked[source].importDetails
        with == IF DetailIndex(details, target) = 0
                THEN <<[module |-> target, symbols |-> <<>>, count |-> 0]>> \o details
                ELSE details
        i == DetailIndex(with, target)
    IN  [linked EXCEPT ![source].importDetails =
            [with EXCEPT ![i] = [@ EXCEPT !.count = @ + 1,
                                          !.symbols = AddAll(@, symbols)]]]

\* AddDependency without the update of importedBy
AddDependencyOneWay(deps, source, target, symbols) ==
    LET linked == [deps EXCEPT ![source].imports = SetAdd(@, target)]
        details == linked[source].importDetails
        with == IF DetailIndex(details, target) = 0
                THEN Append(details, [module |-> target, symbols |-> <<>>, count |-> 0])
                ELSE details
        i == DetailIndex(with, target)
    IN  [linked EXCEPT ![source].importDetails =
            [with EXCEPT ![i] = [@ EXCEPT !.count = @ + 1,
                                          !.symbols = AddAll(@, symbols)]]]

\* AddDependency keeping only the symbols of the first import of a pair
AddDependencyFirstSymbols(deps, source, target, symbols) ==
    LET linked == [deps EXCEPT ![source].imports = SetAdd(@, target),
                               ![target].importedBy = SetAdd(@, source)]
        details == linked[source].importDetails
        with == IF DetailIndex(details, target) = 0
                THEN Append(details, [module |-> target, symbols |-> AddAll(<<>>, symbols),
                                      count |-> 0])
                ELSE details
        i == DetailIndex(with, target)
    IN  [linked EXCEPT ![source].importDetails =
            [with EXCEPT ![i] = [@ EXCEPT !.count = @ + 1]]]

\* the body of the if: imports, importedBy and the import detail of the pair
AddDependency(deps, source, target, symbols) ==
    LET linked == [deps EXCEPT ![source].imports = SetAdd(@, target),
                               ![target].importedBy = SetAdd(@, source)]
        details == linked[source].importDetails
        with == IF DetailIndex(details, target) = 0
                THEN Append(details, [module |-> target, symbols |-> <<>>, count |-> 0])
                ELSE details
        i == DetailIndex(with, target)
    IN  [linked EXCEPT ![source].importDetails =
            [with EXCEPT ![i] = [@ EXCEPT !.count = @ + 1,
                                          !.symbols = AddAll(@, symbols)]]]

(***************************************************************************)
(* The written document.                                                   *)
(***************************************************************************)
ModuleGraph(mods, deps) ==
    [i \in 1..Len(mods) |->
        [id |-> mods[i].id,
         type |-> mods[i].type,
         linesOfCode |-> mods[i].linesOfCode,
         fileCount |-> mods[i].fileCount,
         imports |-> deps[mods[i].id].imports,
         importedBy |-> deps[mods[i].id].importedBy,
         importDetails |-> deps[mods[i].id].importDetails]]

\* Document with every file counted in codeFiles
DocumentAllAsCode(files, mods, deps, clock) ==
    [metadata |->
        [generatedAt |-> clock,
         projectRoot |-> ProjectRoot,
         appDirectory |-> AppPath,
         libsDirectory |-> LibsPath,
         stats |->
            [totalFiles |-> Len(files),
             codeFiles |-> Len(files),
             testFiles |-> Len(SelectSeq(files, LAMBDA f : f.isTest)),
             totalCodeLines |-> SumSeq([i \in 1..Len(files) |->
                 IF files[i].isTest THEN 0 ELSE CountLines(files[i].absolutePath)]),
             totalTestLines |-> SumSeq([i \in 1..Len(files) |->
                 IF files[i].isTest THEN CountLines(files[i].absolutePath) ELSE 0]),
             apps |-> Len(SelectSeq(mods, LAMBDA m : m.type = "app")),
             libs |-> Len(SelectSeq(mods, LAMBDA m : m.type = "lib")),
             totalModules |-> Len(mods)]],
     modules |-> ModuleGraph(mods, deps)]

Document(files, mods, deps, clock) ==
    [metadata |->
        [generatedAt |-> clock,
         projectRoot |-> ProjectRoot,
         appDirectory |-> AppPath,
         libsDirectory |-> LibsPath,
         stats |->
            [totalFiles |-> Len(files),
             codeFiles |-> Len(SelectSeq(files, LAMBDA f : ~f.isTest)),
             testFiles |-> Len(SelectSeq(files, LAMBDA f : f.isTest)),
             totalCodeLines |-> SumSeq([i \in 1..Len(files) |->
                 IF files[i].isTest THEN 0 ELSE CountLines(files[i].absolutePath)]),
             totalTestLines |-> SumSeq([i \in 1..Len(files) |->
                 IF files[i].isTest THEN CountLines(files[i].absolutePath) ELSE 0]),
             apps |-> Len(SelectSeq(mods, LAMBDA m : m.type = "app")),
             libs |-> Len(SelectSeq(mods, LAMBDA m : m.type = "lib")),
             totalModules |-> Len(mods)]],
     modules |-> ModuleGraph(mods, deps)]

(***************************************************************************)
(* The run.                                                                *)
(***************************************************************************)
NoOutput == <<>>

\* resolveImportPath has not been called on its own
NoCall == [importPath |-> Rel(<<>>), fileDir |-> <<>>]

RunStart ==
    /\ pc = "start"
    /\ exitCode = "none"
    /\ allFiles = <<>>
    /\ modules = <<>>
    /\ moduleDependencies = <<>>
    /\ fileIdx = 0
    /\ sourceModuleId = NoModule
    /\ imports = <<>>
    /\ warnings = {}
    /\ contributed = [f \in TreeFiles \cup {FileXTest} |-> <<>>]

\* the visualization after its modules are loaded (focus-modes.js:10-13,
\* part_005:18)
NoCallYet == [op |-> "none", args |-> <<>>]

FocusStart ==
    /\ focusMode = FALSE
    /\ focusedNode = <<>>
    /\ connectionFocusMode = FALSE
    /\ focusedConnection = <<>>
    /\ focusedPair = <<>>
    /\ focusCall = NoCallYet

CacheStart ==
    /\ graphDataCache = <<>>
    /\ pending = {}
    /\ loadResult = <<>>

UiStart == FocusStart /\ CacheStart

ValidConfiguration == nargs >= 2 /\ appKind = "dir" /\ libsKind = "dir"

Init ==
    /\ nargs \in 0..2
    /\ roots = DefaultRoots
    /\ appKind \in {"dir", "file", "missing"}
    /\ libsKind \in {"dir", "file", "missing"}
    /\ \E g \in Placements : content = [f \in Writable |-> TextOf(g, f)]
    /\ parseFails \in {fs \in SUBSET Writable : Cardinality(fs) <= MaxFail}
    /\ ValidConfiguration \/ (parseFails = {} /\ \A f \in Writable : content[f] = <<>>)
    /\ RunStart
    /\ output = NoOutput
    /\ now = 0
    /\ second = FALSE
    /\ prevOutput = NoOutput
    /\ extraFiles = {}
    /\ resolveCall = NoCall
    /\ resolveResult = Null
    /\ UiStart

tree == <<nargs, roots, appKind, libsKind, content, parseFails, extraFiles>>
rerun == <<now, second, prevOutput>>
resolver == <<resolveCall, resolveResult>>
focus == <<focusMode, focusedNode, connectionFocusMode, focusedConnection,
           focusedPair, focusCall>>
cache == <<graphDataCache, pending, loadResult>>
ui == <<focus, cache>>

\* ArgumentsValid without the isDirectory() check of the library root
ArgumentsValidLibsUnchecked ==
    /\ nargs >= 2
    /\ ExistsSync(AppPath)
    /\ IsDirectory(AppPath)
    /\ ExistsSync(LibsPath)

\* the checks of the arguments and of the two roots; process.exit(1) on the
\* first that fails
ArgumentsValid ==
    /\ nargs >= 2
    /\ ExistsSync(AppPath)
    /\ IsDirectory(AppPath)
    /\ ExistsSync(LibsPath)
    /\ IsDirectory(LibsPath)

Validate ==
    /\ pc = "start"
    /\ IF ArgumentsValid
       THEN pc' = "traverse" /\ exitCode' = exitCode
       ELSE pc' = "done" /\ exitCode' = "1"
    /\ UNCHANGED <<ui, tree, rerun, resolver, allFiles, modules, moduleDependencies, fileIdx,
                   sourceModuleId, imports, warnings, contributed, output>>

\* the two traversals of analyzeDirectories
Traverse ==
    /\ pc = "traverse"
    /\ allFiles' = TraverseDirectory(AppPath, ProjectRoot)
                   \o TraverseDirectory(LibsPath, ProjectRoot)
    /\ pc' = "detect"
    /\ UNCHANGED <<ui, tree, rerun, resolver, exitCode, modules, moduleDependencies, fileIdx,
                   sourceModuleId, imports, warnings, contributed, output>>

Detect ==
    /\ pc = "detect"
    /\ modules' = DetectModules(allFiles)
    /\ pc' = "init"
    /\ UNCHANGED <<ui, tree, rerun, resolver, exitCode, allFiles, moduleDependencies, fileIdx,
                   sourceModuleId, imports, warnings, contributed, output>>

\* buildModuleDependencyGraph up to its loop over the files
BeginBuild ==
    /\ pc = "init"
    /\ moduleDependencies' = InitialDependencies(modules)
    /\ fileIdx' = 1
    /\ pc' = "build"
    /\ UNCHANGED <<ui, tree, rerun, resolver, exitCode, allFiles, modules, sourceModuleId, imports,
                   warnings, contributed, output>>

CurrentFile == allFiles[fileIdx]

SourceModuleOf(file) == FileToModule(modules, Relative(ProjectRoot, file.absolutePath))

\* an iteration that ends at one of the two `continue`s
SkipFile ==
    /\ pc = "build"
    /\ fileIdx <= Len(allFiles)
    /\ CurrentFile.isTest \/ SourceModuleOf(CurrentFile) = NoModule
    /\ fileIdx' = fileIdx + 1
    /\ UNCHANGED <<ui, tree, rerun, resolver, pc, exitCode, allFiles, modules, moduleDependencies,
                   sourceModuleId, imports, warnings, contributed, output>>

\* an iteration up to the loop over the imports of the file
ParseFile ==
    /\ pc = "build"
    /\ fileIdx <= Len(allFiles)
    /\ ~CurrentFile.isTest
    /\ SourceModuleOf(CurrentFile) # NoModule
    /\ \E collected \in (IF CurrentFile.absolutePath \in parseFails
                          THEN 0..Len(AstImports(Text(CurrentFile.absolutePath)))
                          ELSE {Len(AstImports(Text(CurrentFile.absolutePath)))}) :
          LET parsed == ParseImportsWithTsMorph(CurrentFile.absolutePath, collected) IN
          /\ warnings' = IF parsed.warned
                         THEN warnings \cup {CurrentFile.absolutePath}
                         ELSE warnings
          /\ IF parsed.imports = <<>>
             THEN /\ fileIdx' = fileIdx + 1
                  /\ UNCHANGED <<pc, sourceModuleId, imports>>
             ELSE /\ imports' = parsed.imports
                  /\ sourceModuleId' = SourceModuleOf(CurrentFile)
                  /\ pc' = "aggregate"
                  /\ UNCHANGED fileIdx
    /\ UNCHANGED <<ui, tree, rerun, resolver, exitCode, allFiles, modules, moduleDependencies,
                   contributed, output>>

\* one iteration of the loop over the imports of the file
AggregateImport ==
    /\ pc = "aggregate"
    /\ LET importInfo == Head(imports)
           targetModuleId == FileToModule(modules, importInfo.path)
       IN  IF IsDependency(sourceModuleId, targetModuleId)
           THEN /\ moduleDependencies' =
                       AddDependency(moduleDependencies, sourceModuleId,
                                     targetModuleId, importInfo.symbols)
                /\ contributed' =
                       [contributed EXCEPT ![CurrentFile.absolutePath] =
                           Append(@, [target |-> targetModuleId,
                                      symbols |-> importInfo.symbols])]
           ELSE UNCHANGED <<moduleDependencies, contributed>>
    /\ imports' = Tail(imports)
    /\ IF Tail(imports) = <<>>
       THEN pc' = "build" /\ fileIdx' = fileIdx + 1 /\ sourceModuleId' = NoModule
       ELSE UNCHANGED <<pc, fileIdx, sourceModuleId>>
    /\ UNCHANGED <<ui, tree, rerun, resolver, exitCode, allFiles, modules, warnings, output>>

\* the rest of analyzeDirectories: line totals, the document, writeFileSync
WriteOutput ==
    /\ pc = "build"
    /\ fileIdx > Len(allFiles)
    /\ output' = <<Document(allFiles, modules, moduleDependencies, now)>>
    /\ pc' = "done"
    /\ exitCode' = "0"
    /\ UNCHANGED <<ui, tree, rerun, resolver, allFiles, modules, moduleDependencies, fileIdx,
                   sourceModuleId, imports, warnings, contributed>>

\* the tool is started again on the unchanged tree: a new process, a later
\* clock, the document of the first run still on disk
Rerun ==
    /\ pc = "done"
    /\ exitCode = "0"
    /\ ~second
    /\ second' = TRUE
    /\ prevOutput' = output
    /\ now' = now + 1
    /\ pc' = "start"
    /\ exitCode' = "none"
    /\ allFiles' = <<>>
    /\ modules' = <<>>
    /\ moduleDependencies' = <<>>
    /\ fileIdx' = 0
    /\ sourceModuleId' = NoModule
    /\ imports' = <<>>
    /\ warnings' = {}
    /\ contributed' = [f \in TreeFiles \cup {FileXTest} |-> <<>>]
    /\ UNCHANGED <<ui, tree, resolver, output>>

Next ==
    \/ Validate
    \/ Traverse
    \/ Detect
    \/ BeginBuild
    \/ SkipFile
    \/ ParseFile
    \/ AggregateImport
    \/ WriteOutput

Spec == Init /\ [][Next]_vars

\* two runs on the same tree
SpecTwice == Init /\ [][Next \/ Rerun]_vars

\* runs with every pair of roots, both directories, every parse succeeding
InitRoots ==
    /\ nargs = 2
    /\ roots \in RootPairs
    /\ appKind = "dir"
    /\ libsKind = "dir"
    /\ \E g \in Placements : content = [f \in Writable |-> TextOf(g, f)]
    /\ parseFails = {}
    /\ RunStart
    /\ output = NoOutput
    /\ now = 0
    /\ second = FALSE
    /\ prevOutput = NoOutput
    /\ extraFiles = {}
    /\ resolveCall = NoCall
    /\ resolveResult = Null
    /\ UiStart

SpecRoots == InitRoots /\ [][Next]_vars

\* every way to write at most MaxStmts statements into the writable files
\* and the test file x.test.ts
PlacementsWithTests ==
    UNION {[1..n -> (Writable \cup {FileXTest}) \X Statements] : n \in 0..MaxStmts}

\* runs on trees that hold x.test.ts, with imports in it or not
InitTests ==
    /\ nargs = 2
    /\ roots = DefaultRoots
    /\ appKind = "dir"
    /\ libsKind = "dir"
    /\ \E g \in PlacementsWithTests :
          content = [f \in Writable \cup {FileXTest} |-> TextOf(g, f)]
    /\ parseFails \in {fs \in SUBSET Writable : Cardinality(fs) <= MaxFail}
    /\ RunStart
    /\ output = NoOutput
    /\ now = 0
    /\ second = FALSE
    /\ prevOutput = NoOutput
    /\ extraFiles = {FileXTest}
    /\ resolveCall = NoCall
    /\ resolveResult = Null
    /\ UiStart

SpecTests == InitTests /\ [][Next]_vars

(***************************************************************************)
(* Files whose references to other modules are call expressions.           *)
(***************************************************************************)
\* a call expression import(spec): its expression is the keyword import,
\* whose text is not 'require'
DynamicImport(spec) ==
    [kind |-> "dynamic", spec |-> spec, named |-> <<>>, def |-> FALSE, ns |-> FALSE]

\* const m = await import('../main')
StDynMain == DynamicImport(Rel(<<DotDot, <<"main">> >>))
\* const h = require('../../libs/util/helpers')
StReqHelpers == RequireCall(Rel(<<DotDot, DotDot, <<"libs">>, <<"util">>, <<"helpers">> >>))

CallStatements == {StDynMain, StReqHelpers, StReqY, StFoo}

PlacementsOfCalls == UNION {[1..n -> Writable \X CallStatements] : n \in 0..MaxStmts}

InitCalls ==
    /\ nargs = 2
    /\ roots = DefaultRoots
    /\ appKind = "dir"
    /\ libsKind = "dir"
    /\ \E g \in PlacementsOfCalls : content = [f \in Writable |-> TextOf(g, f)]
    /\ parseFails \in {fs \in SUBSET Writable : Cardinality(fs) <= MaxFail}
    /\ RunStart
    /\ output = NoOutput
    /\ now = 0
    /\ second = FALSE
    /\ prevOutput = NoOutput
    /\ extraFiles = {}
    /\ resolveCall = NoCall
    /\ resolveResult = Null
    /\ UiStart

SpecCalls == InitCalls /\ [][Next]_vars

(***************************************************************************)
(* Files whose imports resolve to files that are in no module.             *)
(***************************************************************************)
\* import t from '../../libs/util/helpers.test.ts' (a test file)
StTestFile == ImportDecl(Rel(<<DotDot, DotDot, <<"libs">>, <<"util">>,
                                <<"helpers", "test", "ts">> >>), <<>>, TRUE, FALSE)
\* import d from '../node_modules/a/x' (a file of an excluded directory)
StDepFile == ImportDecl(Rel(<<DotDot, <<"node_modules">>, <<"a">>, <<"x">> >>),
                        <<>>, TRUE, FALSE)
\* import k from '../../a/k' (a file outside both roots)
StOutside == ImportDecl(Rel(<<DotDot, DotDot, <<"a">>, <<"k">> >>), <<>>, TRUE, FALSE)
\* import n from './notes.md' (a file that is no source file)
StNotes == ImportDecl(Rel(<<Dot, <<"notes", "md">> >>), <<>>, TRUE, FALSE)

ForeignStatements == {StTestFile, StDepFile, StOutside, StNotes}

PlacementsOfForeign ==
    UNION {[1..n -> Writable \X (ForeignStatements \cup {StFoo})] : n \in 0..MaxStmts}

InitForeign ==
    /\ nargs = 2
    /\ roots = DefaultRoots
    /\ appKind = "dir"
    /\ libsKind = "dir"
    /\ \E g \in PlacementsOfForeign : content = [f \in Writable |-> TextOf(g, f)]
    /\ parseFails \in {fs \in SUBSET Writable : Cardinality(fs) <= MaxFail}
    /\ RunStart
    /\ output = NoOutput
    /\ now = 0
    /\ second = FALSE
    /\ prevOutput = NoOutput
    /\ extraFiles = {}
    /\ resolveCall = NoCall
    /\ resolveResult = Null
    /\ UiStart

SpecForeign == InitForeign /\ [][Next]_vars

(***************************************************************************)
(* buildModuleDependencyGraph on permuted inputs: a first run in the order *)
(* of the traversal, then a second run on the same tree in which the file  *)
(* list and the import records of each file are handed over in any order.  *)
(***************************************************************************)
\* every sequence with the elements of seq in another order
PermutationsOf(seq) ==
    {[i \in 1..Len(seq) |-> seq[pi[i]]] :
        pi \in {f \in [1..Len(seq) -> 1..Len(seq)] :
                   \A i, j \in 1..Len(seq) : f[i] = f[j] => i = j}}

OrderStatements == {StFoo, StBar, StReqY, StAbs}

PlacementsOfOrder ==
    UNION {[1..n -> {FileX, FileY} \X OrderStatements] : n \in 0..MaxStmts}

\* the roots /p/apps/a and /p/libs: modules apps/x, apps/y and libs/util
InitPermuted ==
    /\ nargs = 2
    /\ roots = <<DirAppsA, DirLibs>>
    /\ appKind = "dir"
    /\ libsKind = "dir"
    /\ \E g \in PlacementsOfOrder : content = [f \in Writable |-> TextOf(g, f)]
    /\ parseFails = {}
    /\ RunStart
    /\ output = NoOutput
    /\ now = 0
    /\ second = FALSE
    /\ prevOutput = NoOutput
    /\ extraFiles = {}
    /\ resolveCall = NoCall
    /\ resolveResult = Null
    /\ UiStart

\* the parameter files of buildModuleDependencyGraph in another order
PermuteFiles ==
    /\ second
    /\ pc = "init"
    /\ allFiles' \in PermutationsOf(allFiles) \ {allFiles}
    /\ UNCHANGED <<ui, tree, rerun, resolver, pc, exitCode, modules, moduleDependencies,
                   fileIdx, sourceModuleId, imports, warnings, contributed, output>>

\* the import records of the file being processed in another order
PermuteRecords ==
    /\ second
    /\ pc = "aggregate"
    /\ imports' \in PermutationsOf(imports) \ {imports}
    /\ UNCHANGED <<ui, tree, rerun, resolver, pc, exitCode, allFiles, modules,
                   moduleDependencies, fileIdx, sourceModuleId, warnings, contributed,
                   output>>

NextPermuted == Next \/ Rerun \/ PermuteFiles \/ PermuteRecords

SpecPermuted == InitPermuted /\ [][NextPermuted]_vars

(***************************************************************************)
(* The walk on its own: validation and the two traversals, over trees that *)
(* differ in the files they hold.                                          *)
(***************************************************************************)
FileUpperTests == DirApps \o << <<"Tests">>, <<"t", "ts">> >>
FileLowerTests == DirApps \o << <<"tests">>, <<"u", "ts">> >>
FileUnderTests == DirAppsA \o << <<"__tests__">>, <<"v", "ts">> >>
FileUpperSpec == DirAppsA \o << <<"w", "SPEC", "ts">> >>
FileMyTest == DirLibs \o << <<"util">>, <<"my_test", "ts">> >>
FileDist == DirApps \o << <<"dist">>, <<"d", "ts">> >>
FileBuild == DirAppsA \o << <<"build">>, <<"e", "ts">> >>
FileUpperExt == DirAppsA \o << <<"z", "TS">> >>

WalkFiles == {FileUpperTests, FileLowerTests, FileUnderTests, FileUpperSpec,
              FileMyTest, FileDist, FileBuild, FileUpperExt}

InitWalk ==
    /\ nargs = 2
    /\ roots = DefaultRoots
    /\ appKind = "dir"
    /\ libsKind = "dir"
    /\ content = [f \in Writable |-> <<>>]
    /\ parseFails = {}
    /\ RunStart
    /\ output = NoOutput
    /\ now = 0
    /\ second = FALSE
    /\ prevOutput = NoOutput
    /\ extraFiles \in SUBSET WalkFiles
    /\ resolveCall = NoCall
    /\ resolveResult = Null
    /\ UiStart

NextWalk == Validate \/ Traverse

SpecWalk == InitWalk /\ [][NextWalk]_vars

(***************************************************************************)
(* resolveImportPath on its own: the function applied to a specifier and   *)
(* an importing directory, over trees that differ in the files they hold.  *)
(***************************************************************************)
FileHelpersJs == DirLibs \o << <<"util">>, <<"helpers", "js">> >>
FileHelpersIndexJs == DirLibs \o << <<"util">>, <<"helpers">>, <<"index", "js">> >>
FileKitTsx == DirLibs \o << <<"util">>, <<"kit", "tsx">> >>
FileKitIndexJs == DirLibs \o << <<"util">>, <<"kit">>, <<"index", "js">> >>
FileKitIndexTs == DirLibs \o << <<"util">>, <<"kit">>, <<"index", "ts">> >>

OptionalFiles == {FileHelpersJs, FileHelpersIndexJs, FileKitTsx, FileKitIndexJs,
                  FileKitIndexTs}

\* './helpers', './kit', './kit/index', './helpers.ts', './helpers.test',
\* './none', '.', '../util/kit', '/p/libs/util/kit' and '../../libs/util/kit'
Specifiers == {Rel(<<Dot, <<"helpers">> >>),
               Rel(<<Dot, <<"kit">> >>),
               Rel(<<Dot, <<"kit">>, <<"index">> >>),
               Rel(<<Dot, <<"helpers", "ts">> >>),
               Rel(<<Dot, <<"helpers", "test">> >>),
               Rel(<<Dot, <<"none">> >>),
               Rel(<<Dot>>),
               Rel(<<DotDot, <<"util">>, <<"kit">> >>),
               Abs(<< <<"p">>, <<"libs">>, <<"util">>, <<"kit">> >>),
               Rel(<<DotDot, DotDot, <<"libs">>, <<"util">>, <<"kit">> >>)}

\* path.dirname of the importing file
ImportingDirs == {DirLibs \o << <<"util">> >>, DirAppsA}

InitResolve ==
    /\ nargs = 2
    /\ roots = DefaultRoots
    /\ appKind = "dir"
    /\ libsKind = "dir"
    /\ content = [f \in Writable |-> <<>>]
    /\ parseFails = {}
    /\ RunStart
    /\ output = NoOutput
    /\ now = 0
    /\ second = FALSE
    /\ prevOutput = NoOutput
    /\ extraFiles \in SUBSET OptionalFiles
    /\ resolveCall = NoCall
    /\ resolveResult = Null
    /\ UiStart

\* one call resolveImportPath(importPath, fileDir)
Resolve ==
    /\ \E importPath \in Specifiers, fileDir \in ImportingDirs :
          /\ resolveCall' = [importPath |-> importPath, fileDir |-> fileDir]
          /\ resolveResult' = ResolveImportPath(importPath, fileDir)
    /\ UNCHANGED <<ui, tree, rerun, pc, exitCode, allFiles, modules, moduleDependencies,
                   fileIdx, sourceModuleId, imports, warnings, contributed, output>>

SpecResolve == InitResolve /\ [][Resolve]_vars


(***************************************************************************)
(* Vocabulary of the properties.                                           *)
(***************************************************************************)
ModuleIds == {modules[i].id : i \in 1..Len(modules)}

\* the edge objects: one import detail of a source module per target
HasEdge(S, T) ==
    /\ S \in DOMAIN moduleDependencies
    /\ DetailIndex(moduleDependencies[S].importDetails, T) # 0

EdgeOf(S, T) ==
    LET details == moduleDependencies[S].importDetails
    IN  details[DetailIndex(details, T)]

\* the production files of module S
FilesOf(S) ==
    {modules[i].files[j].absolutePath :
        i \in {k \in 1..Len(modules) : modules[k].id = S},
        j \in 1..Len(modules[ModuleIndex(modules, S)].files)}

FilePos(f) ==
    IF \E i \in 1..Len(allFiles) : allFiles[i].absolutePath = f
    THEN CHOOSE i \in 1..Len(allFiles) : allFiles[i].absolutePath = f
    ELSE 0

\* the loop of buildModuleDependencyGraph is past file f
Processed(f) ==
    /\ pc \in {"build", "aggregate", "done"}
    /\ FilePos(f) # 0
    /\ FilePos(f) < fileIdx

\* the files of the tree in which a specifier may resolve to a module
\* (a statement of f names the module of the file it resolves to)
TargetOfSpec(f, spec) ==
    LET resolved == ResolveImportPath(spec, DirName(f))
    IN  IF resolved = Null THEN NoModule
        ELSE FileToModule(modules, Relative(ProjectRoot, resolved))

\* statement st of file f imports from a file of another module
CrossModule(f, st) ==
    /\ TargetOfSpec(f, st.spec) # NoModule
    /\ TargetOfSpec(f, st.spec) # ModuleOf(f).id

SuccessfulRun == pc = "done" /\ exitCode = "0"

(***************************************************************************)
(* C1: after every step of edge aggregation no module has an edge to       *)
(* itself (it is neither in its own imports nor in its own importedBy, and *)
(* has no import detail for itself), and aggregating an import that        *)
(* resolves into the module of the importing file changes no edge.         *)
(***************************************************************************)
NoSelfLoop ==
    \A S \in DOMAIN moduleDependencies :
        /\ ~HasEdge(S, S)
        /\ ~Contains(moduleDependencies[S].imports, S)
        /\ ~Contains(moduleDependencies[S].importedBy, S)

SameModuleImport ==
    /\ pc = "aggregate"
    /\ FileToModule(modules, Head(imports).path) = ModuleOf(CurrentFile.absolutePath).id

C1_NoSelfLoops ==
    /\ []NoSelfLoop
    /\ [][SameModuleImport => moduleDependencies' = moduleDependencies]_vars

\* an import of a file of the same module has been aggregated
C1_Witness ==
    /\ pc = "build"
    /\ \E f \in Writable :
          /\ Processed(f)
          /\ \E st \in Range(Text(f)) :
                /\ IsRelativeSpecifier(st.spec)
                /\ TargetOfSpec(f, st.spec) = ModuleOf(f).id


(***************************************************************************)
(* C2: in the document of a completed run every detected module is emitted *)
(* and, for every module M, the number of entries of importedBy(M) (its    *)
(* incoming count) is the number of distinct modules with an edge into M,  *)
(* and the number of entries of imports(M) (its outgoing count) is the     *)
(* number of distinct modules M has an edge into; a module without edges   *)
(* has both counts 0.                                                      *)
(***************************************************************************)
IncomingCount(node) == Len(node.importedBy)
OutgoingCount(node) == Len(node.imports)

EdgeTargets(node) ==
    {node.importDetails[d].module : d \in 1..Len(node.importDetails)}

ImportingFiles(S, T) ==
    {f \in FilesOf(S) : \E i \in 1..Len(contributed[f]) : contributed[f][i].target = T}

C3_CountIsDistinctFiles ==
    SuccessfulRun =>
        \A S \in ModuleIds : \A T \in ModuleIds :
            HasEdge(S, T) => EdgeOf(S, T).count = Cardinality(ImportingFiles(S, T))

(***************************************************************************)
(* C4: at every moment a source module has at most one edge object per     *)
(* target, and after all files are processed there is an edge (S, T)       *)
(* exactly when some file of S has a resolved import into another module   *)
(* T, its symbols being exactly the union of the symbol names of the       *)
(* import records that contributed to it, each name once.                  *)
(***************************************************************************)
ContributedSymbols(S, T) ==
    UNION {UNION {Range(contributed[f][i].symbols) :
                     i \in {k \in 1..Len(contributed[f]) : contributed[f][k].target = T}} :
              f \in FilesOf(S)}

OneEdgePerPair ==
    \A S \in DOMAIN moduleDependencies :
        LET details == moduleDependencies[S].importDetails IN
        \A i, j \in 1..Len(details) : details[i].module = details[j].module => i = j

C4_OneEdgeUnionOfSymbols ==
    /\ OneEdgePerPair
    /\ SuccessfulRun =>
          \A S \in ModuleIds : \A T \in ModuleIds :
              /\ HasEdge(S, T) <=>
                    \E f \in FilesOf(S) : \E st \in Range(Text(f)) :
                        /\ IF f \in parseFails
                           THEN ImportRegexMatches(st) \/ RequireRegexMatches(st)
                           ELSE TRUE
                        /\ IsRelativeSpecifier(st.spec)
                        /\ CrossModule(f, st)
                        /\ TargetOfSpec(f, st.spec) = T
              /\ HasEdge(S, T) =>
                    LET symbols == EdgeOf(S, T).symbols IN
                    /\ Range(symbols) = ContributedSymbols(S, T)
                    /\ Cardinality(Range(symbols)) = Len(symbols)

\* x.ts imports foo and y.ts imports bar from libs/util: one edge of count 2
\* with the symbols foo and bar
C4_Witness ==
    /\ SuccessfulRun
    /\ content[FileX] = <<StFoo>>
    /\ content[FileY] = <<StBar>>
    /\ parseFails = {}
    /\ HasEdge(<<"apps", <<"a">> >>, <<"libs", <<"util">> >>)
    /\ EdgeOf(<<"apps", <<"a">> >>, <<"libs", <<"util">> >>).count = 2
    /\ Range(EdgeOf(<<"apps", <<"a">> >>, <<"libs", <<"util">> >>).symbols) = {"foo", "bar"}

(***************************************************************************)
(* C5 (as claimed): in every written document the count of an edge is at   *)
(* most the fileCount of its source module.                                *)
(***************************************************************************)
C5_CountAtMostFileCount ==
    output # NoOutput =>
        LET nodes == output[1].modules IN
        \A i \in 1..Len(nodes) : \A d \in 1..Len(nodes[i].importDetails) :
            nodes[i].importDetails[d].count <= nodes[i].fileCount


(***************************************************************************)
(* C6: the second of two runs on the same unchanged tree writes a document *)
(* equal to the first one (the module ids, the totals, the modules and     *)
(* their edges, in the same order) but for generatedAt, and ends with the  *)
(* same exit status.                                                       *)
(***************************************************************************)
WithoutTimestamp(doc) == [doc EXCEPT !.metadata.generatedAt = 0]

RECURSIVE CrossModuleRecords(_, _)
CrossModuleRecords(f, records) ==
    IF records = <<>> THEN <<>>
    ELSE LET r == Head(records)
             T == TargetOfSpec(f, r.path)
         IN  (IF T # NoModule /\ T # ModuleOf(f).id
              THEN <<[target |-> T, symbols |-> r.symbols]>>
              ELSE <<>>) \o CrossModuleRecords(f, Tail(records))

C8_ParseFailureNeverAborts ==
    (ValidConfiguration /\ pc = "done") =>
        /\ exitCode = "0"
        /\ output # NoOutput
        /\ fileIdx = Len(allFiles) + 1
        /\ \A S \in ModuleIds : \A f \in FilesOf(S) :
              f \notin parseFails =>
                  contributed[f] = CrossModuleRecords(f, AstImports(Text(f)))

\* x.ts failed its parse and y.ts, processed after it, contributed symbols
C8_Witness ==
    /\ pc = "done"
    /\ exitCode = "0"
    /\ FileX \in parseFails
    /\ FileY \notin parseFails
    /\ \E i \in 1..Len(contributed[FileY]) : contributed[FileY][i].symbols # <<>>

(***************************************************************************)
(* C9: once the loop is past a file whose structured parse failed, a       *)
(* warning is recorded for it and it has contributed once for every        *)
(* import-from or require occurrence the regex scan finds with a relative  *)
(* specifier that resolves to a production file of another module, each    *)
(* time without symbol names, and nothing else.                            *)
(***************************************************************************)
RegexFound(f) ==
    SelectSeq(Text(f), LAMBDA st : ImportRegexMatches(st) /\ IsRelativeSpecifier(st.spec))
    \o SelectSeq(Text(f), LAMBDA st : RequireRegexMatches(st) /\ IsRelativeSpecifier(st.spec))

C9_FallbackContributes ==
    \A f \in parseFails :
        (Processed(f) /\ ~IsTestFile(f)) =>
            /\ f \in warnings
            /\ contributed[f] =
                  CrossModuleRecords(f, [i \in 1..Len(RegexFound(f)) |->
                      [path |-> RegexFound(f)[i].spec, symbols |-> <<>>]])

\* a failing file with an import declaration the AST walk could have
\* collected has contributed to an edge
C9_Witness ==
    \E f \in parseFails :
        /\ Processed(f)
        /\ contributed[f] # <<>>
        /\ AstImports(Text(f)) # <<>>

(***************************************************************************)
(* C10 (as claimed): a file all of whose imports have a bare specifier,    *)
(* one that does not start with './', '../' or '/', contributes to no      *)
(* edge, whether it is parsed or scanned by the regex fallback.            *)
(***************************************************************************)
BareSpecifier(spec) == ~spec.abs /\ (spec.segs = <<>> \/ Head(spec.segs) \notin {Dot, DotDot})

C10_BareSpecifierNoEdge ==
    \A f \in Writable :
        (\A st \in Range(Text(f)) : BareSpecifier(st.spec)) => contributed[f] = <<>>

(***************************************************************************)
(* C11: once detectModules has returned, every discovered file that is not *)
(* a test file is in the file list of exactly one module, and no two       *)
(* modules have the same id; this for every pair of roots, one being a     *)
(* string prefix of the other or lying inside the other included.          *)
(***************************************************************************)
Detected == pc \in {"init", "build", "aggregate", "done"} /\ exitCode # "1"

\* the modules whose file list has the path f
ModulesWith(f) ==
    {i \in 1..Len(modules) :
        \E j \in 1..Len(modules[i].files) : modules[i].files[j].absolutePath = f}

C11_OneModulePerFile ==
    Detected =>
        /\ \A k \in 1..Len(allFiles) :
              ~allFiles[k].isTest =>
                  Cardinality(ModulesWith(allFiles[k].absolutePath)) = 1
        /\ \A i, j \in 1..Len(modules) : modules[i].id = modules[j].id => i = j

\* the library root lies inside the application root: helpers.ts is found
\* by both traversals, next to files of other modules
C11_Witness ==
    /\ Detected
    /\ IsPrefix(AppPath, LibsPath)
    /\ Cardinality({k \in 1..Len(allFiles) :
                       allFiles[k].absolutePath = FileHelpers}) = 2
    /\ Len(modules) >= 3

(***************************************************************************)
(* C12 (as claimed): the type of a module is 'app' exactly when its files  *)
(* lie under the application root and 'lib' exactly when they lie under    *)
(* the library root, 'under' being containment of paths; a file under the  *)
(* library root and not under the application root is never in a module    *)
(* of type 'app'.                                                          *)
(***************************************************************************)
\* path containment: dir is p or one of the directories above p
Under(p, dir) == IsPrefix(dir, p)

\* neither root lies inside the other
RootsApart == ~Under(AppPath, LibsPath) /\ ~Under(LibsPath, AppPath)

C12_TypeByContainment ==
    Detected =>
        \A i \in 1..Len(modules) : \A j \in 1..Len(modules[i].files) :
            LET f == modules[i].files[j].absolutePath IN
            /\ RootsApart =>
                  /\ modules[i].type = "app" <=> Under(f, AppPath)
                  /\ modules[i].type = "lib" <=> Under(f, LibsPath)
            /\ (Under(f, LibsPath) /\ ~Under(f, AppPath)) => modules[i].type # "app"

(***************************************************************************)
(* C13 (as claimed): the id of the module of a production file is the      *)
(* label of the root the file lies under followed by the first segment of  *)
(* the path of the file relative to that root when that path has more than *)
(* one segment, and by the file name without its extension otherwise; the  *)
(* first segment is the name of a directory of that root, never '..'.      *)
(***************************************************************************)
C13_IdFromFirstSegment ==
    Detected =>
        \A i \in 1..Len(modules) : \A j \in 1..Len(modules[i].files) :
            LET f == modules[i].files[j].absolutePath
                root == IF Under(f, AppPath) THEN AppPath ELSE LibsPath
                label == IF Under(f, AppPath) THEN "apps" ELSE "libs"
                pathParts == Relative(root, f)
            IN  IF Len(pathParts) > 1
                THEN /\ modules[i].id = <<label, pathParts[1]>>
                     /\ pathParts[1] # DotDot
                     /\ IsDirectory(Append(root, pathParts[1]))
                ELSE modules[i].id = <<label, BaseNameNoExt(pathParts[1])>>

(***************************************************************************)
(* C14 (as claimed): the fileCount and the linesOfCode of every module are *)
(* the number and the summed raw line counts of all the discovered files   *)
(* of the module, its test files included.                                 *)
(***************************************************************************)
\* the discovered files located in module id, with or without the test files
MembersOf(id, withTests) ==
    SelectSeq(allFiles, LAMBDA f :
        ModuleOf(f.absolutePath).id = id /\ (withTests \/ ~f.isTest))

TotalLines(files) == SumSeq([k \in 1..Len(files) |-> CountLines(files[k].absolutePath)])

Called == resolveCall # NoCall

\* the path the specifier of the call names
ResolvedOfCall == PathResolve(resolveCall.fileDir, resolveCall.importPath)

SiblingAt(i) == AddExt(ResolvedOfCall, Extensions[i])
IndexAt(i) == AddExt(Append(ResolvedOfCall, <<"index">>), Extensions[i])

ExistingSiblings == {i \in 1..Len(Extensions) : ExistsSync(SiblingAt(i))}
ExistingIndexes == {i \in 1..Len(Extensions) : ExistsSync(IndexAt(i))}

Least(S) == CHOOSE i \in S : \A j \in S : i <= j

SiblingBeforeIndex ==
    (Called /\ PathExtName(ResolvedOfCall) = <<>>) =>
        /\ ExistingSiblings # {} => resolveResult = SiblingAt(Least(ExistingSiblings))
        /\ (ExistingSiblings = {} /\ ExistingIndexes # {}) =>
              resolveResult = IndexAt(Least(ExistingIndexes))

C15_ExtensionOrder ==
    /\ []SiblingBeforeIndex
    /\ [][resolveCall' = resolveCall => resolveResult' = resolveResult]_vars

\* './helpers' with helpers.js, helpers.ts and helpers/index.js in the tree
\* gives helpers.js
C15_Witness ==
    /\ Called
    /\ resolveCall.importPath = Rel(<<Dot, <<"helpers">> >>)
    /\ {FileHelpersJs, FileHelpersIndexJs} \subseteq extraFiles
    /\ Cardinality(ExistingSiblings) = 2
    /\ ExistingIndexes # {}
    /\ resolveResult = FileHelpersJs

(***************************************************************************)
(* C16 (as claimed): resolveImportPath returns null or the path of an      *)
(* existing file, never the path of a directory or of nothing, and it      *)
(* returns null exactly when neither the resolved path itself, nor one of  *)
(* its extension variants, nor one of its index variants exists.           *)
(***************************************************************************)
C16_NullOrExistingFile ==
    Called =>
        /\ resolveResult # Null => IsFile(resolveResult)
        /\ resolveResult = Null <=>
              /\ ~ExistsSync(ResolvedOfCall)
              /\ ExistingSiblings = {}
              /\ ExistingIndexes = {}

(***************************************************************************)
(* C17 (as claimed): when a declared path-alias mapping applies to the     *)
(* prefix of a non-relative specifier and the substituted path resolves to *)
(* an existing production file of another module, the file holding the     *)
(* import contributes to the edge into that module, with the symbols of    *)
(* the import, as a relative import does.                                  *)
(***************************************************************************)
\* the mapping "a/*": ["apps/a/*"] of a tsconfig.json in /p
TsConfigPaths == {[prefix |-> << <<"a">> >>, base |-> DirAppsA]}

AliasApplies(spec) ==
    /\ ~IsRelativeSpecifier(spec)
    /\ \E al \in TsConfigPaths : IsPrefix(al.prefix, spec.segs)

\* the specifier with the mapped base in the place of the prefix
Substituted(spec) ==
    LET al == CHOOSE al \in TsConfigPaths : IsPrefix(al.prefix, spec.segs)
    IN  Abs(al.base \o SubSeq(spec.segs, Len(al.prefix) + 1, Len(spec.segs)))

C17_AliasContributes ==
    SuccessfulRun =>
        \A S \in ModuleIds : \A f \in FilesOf(S) : \A st \in Range(Text(f)) :
            (/\ f \notin parseFails
             /\ AliasApplies(st.spec)
             /\ CrossModule(f, [st EXCEPT !.spec = Substituted(st.spec)])) =>
                \E i \in 1..Len(contributed[f]) :
                    /\ contributed[f][i].target = TargetOfSpec(f, Substituted(st.spec))
                    /\ contributed[f][i].symbols = DeclSymbols(st)

(***************************************************************************)
(* C18 (as claimed): in the written document the edges are in ascending    *)
(* order of (source module id, target module id) and the symbols of every  *)
(* edge are in sorted order.                                               *)
(***************************************************************************)
\* the module ids and the symbol names of the universe in the order of
\* Array.prototype.sort (by code unit)
SortedIds == << <<"apps", <<"", "b">> >>, <<"apps", <<"a">> >>,
                <<"apps", <<"main">> >>, <<"libs", <<"util">> >> >>
SortedSymbols == <<"*", "bar", "default", "foo">>

RankIn(sorted, e) == CHOOSE i \in 1..Len(sorted) : sorted[i] = e

\* the edges of a document in the order they are written: node by node,
\* import detail by import detail
RECURSIVE EdgesOf(_)
EdgesOf(nodes) ==
    IF nodes = <<>> THEN <<>>
    ELSE [d \in 1..Len(Head(nodes).importDetails) |->
             [from |-> Head(nodes).id,
              to |-> Head(nodes).importDetails[d].module,
              symbols |-> Head(nodes).importDetails[d].symbols]]
         \o EdgesOf(Tail(nodes))

EdgeBefore(e1, e2) ==
    \/ RankIn(SortedIds, e1.from) < RankIn(SortedIds, e2.from)
    \/ /\ e1.from = e2.from
       /\ RankIn(SortedIds, e1.to) < RankIn(SortedIds, e2.to)

RECURSIVE FirstOccurrences(_, _)
FirstOccurrences(seen, seq) ==
    IF seq = <<>> THEN <<>>
    ELSE IF Head(seq) \in seen THEN FirstOccurrences(seen, Tail(seq))
    ELSE <<Head(seq)>> \o FirstOccurrences(seen \cup {Head(seq)}, Tail(seq))

\* what the production files of module S contributed, in the order of the
\* files and of their import records
RECURSIVE RecordsOf(_, _)
RecordsOf(S, files) ==
    IF files = <<>> THEN <<>>
    ELSE (IF ~Head(files).isTest /\ ModuleOf(Head(files).absolutePath).id = S
          THEN contributed[Head(files).absolutePath]
          ELSE <<>>) \o RecordsOf(S, Tail(files))

RECURSIVE SymbolsInto(_, _)
SymbolsInto(T, records) ==
    IF records = <<>> THEN <<>>
    ELSE (IF Head(records).target = T THEN Head(records).symbols ELSE <<>>)
         \o SymbolsInto(T, Tail(records))

Has(object, field) == field \in DOMAIN object

ValidateSpecNode(node) ==
    /\ Has(node, "id")
    /\ Has(node, "type") /\ node.type \in {"app", "lib", "external"}
    /\ Has(node, "linesOfCode") /\ node.linesOfCode >= 0
    /\ Has(node, "fileCount") /\ node.fileCount >= 0
    /\ Has(node, "incomingCount") /\ node.incomingCount >= 0
    /\ Has(node, "outgoingCount") /\ node.outgoingCount >= 0

ValidateLegacyNode(nodeData) ==
    /\ Has(nodeData, "imports")
    /\ Has(nodeData, "importedBy")
    /\ Has(nodeData, "linesOfCode") /\ nodeData.linesOfCode >= 0

\* TRUE when the data is returned, FALSE when an Error is thrown and null
\* is returned
ValidateAndLoadGraph(data) ==
    /\ Has(data, "metadata")
    /\ Has(data, "nodes") \/ Has(data, "graph")
    /\ Has(data.metadata, "stats")
    /\ IF Has(data, "nodes") /\ Has(data, "edges")
       THEN /\ Len(data.nodes) # 0
            /\ \A n \in 1..Len(data.nodes) : ValidateSpecNode(data.nodes[n])
       ELSE /\ Has(data, "graph")
            /\ DOMAIN data.graph # {}
            /\ \A filePath \in DOMAIN data.graph : ValidateLegacyNode(data.graph[filePath])

(***************************************************************************)
(* C19 (as claimed): every written document has a metadata object with     *)
(* stats, a nodes array whose entries have id, type, linesOfCode,          *)
(* fileCount, incomingCount and outgoingCount, and an edges array whose    *)
(* entries have from, to, count and symbols; with at least one module it   *)
(* is accepted by validateAndLoadGraph.                                    *)
(***************************************************************************)
C19_NodesAndEdgesDocument ==
    output # NoOutput =>
        LET data == output[1] IN
        /\ Has(data, "metadata") /\ Has(data.metadata, "stats")
        /\ Has(data, "nodes")
        /\ \A n \in 1..Len(data.nodes) :
              {"id", "type", "linesOfCode", "fileCount", "incomingCount",
               "outgoingCount"} \subseteq DOMAIN data.nodes[n]
        /\ Has(data, "edges")
        /\ \A e \in 1..Len(data.edges) :
              {"from", "to", "count", "symbols"} \subseteq DOMAIN data.edges[e]
        /\ Len(modules) >= 1 => ValidateAndLoadGraph(data)

(***************************************************************************)
(* C20: a test file never contributes to an edge as the importing file:    *)
(* whatever imports the test files hold, after a run the edges of every    *)
(* module, their counts and their symbols are those given by the import    *)
(* records of the production files alone.                                  *)
(***************************************************************************)
TestFilePaths == {FileHelpersTest, FileXTest}

\* the records a production file gives: from its declarations and require
\* calls, or from the regex scan when its parse throws
RecordsGivenBy(f) ==
    IF f \in parseFails
    THEN CrossModuleRecords(f, [i \in 1..Len(RegexFound(f)) |->
             [path |-> RegexFound(f)[i].spec, symbols |-> <<>>]])
    ELSE CrossModuleRecords(f, AstImports(Text(f)))

\* the records given by the production files of module S, file by file
RECURSIVE ProductionRecords(_, _)
ProductionRecords(S, files) ==
    IF files = <<>> THEN <<>>
    ELSE (IF Head(files).absolutePath \notin TestFilePaths
             /\ ModuleOf(Head(files).absolutePath).id = S
          THEN RecordsGivenBy(Head(files).absolutePath)
          ELSE <<>>) \o ProductionRecords(S, Tail(files))

C20_TestFilesContributeNothing ==
    /\ \A f \in TestFilePaths : contributed[f] = <<>>
    /\ SuccessfulRun =>
          \A S \in ModuleIds :
              LET records == ProductionRecords(S, allFiles)
                  details == moduleDependencies[S].importDetails
                  into(T) == {r \in 1..Len(records) : records[r].target = T}
              IN  /\ {details[d].module : d \in 1..Len(details)} =
                        {records[r].target : r \in 1..Len(records)}
                  /\ \A d \in 1..Len(details) :
                        /\ details[d].count = Cardinality(into(details[d].module))
                        /\ Range(details[d].symbols) =
                              UNION {Range(records[r].symbols) : r \in into(details[d].module)}

\* x.test.ts imports foo from libs/util and main.ts does too: there is an
\* edge from apps/main and none from apps/a, the module x.test.ts lies in
C20_Witness ==
    /\ SuccessfulRun
    /\ Text(FileXTest) = <<StFoo>>
    /\ Text(FileMain) = <<StAbs>>
    /\ \E k \in 1..Len(allFiles) :
          allFiles[k].absolutePath = FileXTest /\ allFiles[k].isTest
    /\ HasEdge(<<"apps", <<"main">> >>, <<"libs", <<"util">> >>)
    /\ ~HasEdge(<<"apps", <<"a">> >>, <<"libs", <<"util">> >>)

(***************************************************************************)
(* C21 (as claimed): whenever the resolved path is not an existing file    *)
(* with a recognized source extension, resolveImportPath returns the first *)
(* existing '<resolved><ext>', or else the first existing                  *)
(* '<resolved>/index<ext>'; so './helpers.test', whose last segment has a  *)
(* dot and no recognized extension, resolves to helpers.test.ts.           *)
(***************************************************************************)
C21_SearchUnlessSourceFile ==
    (Called /\ ~(IsFile(ResolvedOfCall) /\ IsJsOrTsFile(ResolvedOfCall))) =>
        /\ ExistingSiblings # {} => resolveResult = SiblingAt(Least(ExistingSiblings))
        /\ (ExistingSiblings = {} /\ ExistingIndexes # {}) =>
              resolveResult = IndexAt(Least(ExistingIndexes))

(***************************************************************************)
(* C22 (as claimed): a discovered file is tagged isTest exactly when its   *)
(* file name has '.test.', '.spec.', '_test.' or '_spec.' or its path has  *)
(* a segment '__tests__', 'test' or 'tests', the name and the segments     *)
(* both compared without regard to case.                                   *)
(***************************************************************************)
Traversed == pc \in {"detect", "init", "build", "aggregate", "done"} /\ exitCode # "1"

LowerName(name) == [i \in 1..Len(name) |-> Lower(name[i])]

\* a lower-case file name with '.test.', '.spec.', '_test.' or '_spec.'
HasTestMark(name) ==
    \/ \E i \in 2..(Len(name) - 1) : name[i] \in {"test", "spec"}
    \/ \E i \in 1..(Len(name) - 1) : name[i] \in {"my_test"}

C22_TestTagIgnoresCase ==
    Traversed =>
        \A k \in 1..Len(allFiles) :
            LET p == allFiles[k].absolutePath IN
            allFiles[k].isTest <=>
                \/ HasTestMark(LowerName(Last(p)))
                \/ \E i \in 1..(Len(p) - 1) :
                      LowerName(p[i]) \in {<<"__tests__">>, <<"test">>, <<"tests">>}

(***************************************************************************)
(* C23: the two traversals return exactly the files under the two roots    *)
(* whose extension, in lower case, is one of js, jsx, ts, tsx, mjs, cjs    *)
(* and whose path below the root has no directory named node_modules,      *)
(* .git, dist, build, coverage or .next at any depth, each file once; the  *)
(* traversal of every tree ends.                                           *)
(***************************************************************************)
\* the files the tree holds
FilesOfTree == TreeFiles \cup extraFiles

ExpectedFiles(root) ==
    {f \in FilesOfTree :
        /\ Under(f, root)
        /\ Lower(Last(Last(f))) \in {"js", "jsx", "ts", "tsx", "mjs", "cjs"}
        /\ \A i \in (Len(root) + 1)..(Len(f) - 1) :
              f[i] \notin {<<"node_modules">>, <<"", "git">>, <<"dist">>, <<"build">>,
                           <<"coverage">>, <<"", "next">>}}

C23_ExactlyTheSourceFiles ==
    /\ pc = "traverse" => ENABLED Traverse
    /\ Traversed =>
          /\ {allFiles[k].absolutePath : k \in 1..Len(allFiles)} =
                ExpectedFiles(AppPath) \cup ExpectedFiles(LibsPath)
          /\ \A j, k \in 1..Len(allFiles) :
                allFiles[j].absolutePath = allFiles[k].absolutePath => j = k

\* a tree with files in dist and in a/build, a file z.TS and notes.md: the
\* first two and the last are left out, z.TS is returned
C23_Witness ==
    /\ Traversed
    /\ {FileDist, FileBuild, FileUpperExt} \subseteq extraFiles
    /\ \E k \in 1..Len(allFiles) : allFiles[k].absolutePath = FileUpperExt
    /\ \A k \in 1..Len(allFiles) :
          allFiles[k].absolutePath \notin {FileDist, FileBuild, FileDep, FileNotes}

(***************************************************************************)
(* C24 (as claimed): on the structured-parse path every import(...) call   *)
(* and every require(...) call whose argument is a string literal with a   *)
(* relative specifier yields an import record: a file that parsed and      *)
(* holds such a call into a production file of another module has          *)
(* contributed to the edge into that module.                               *)
(***************************************************************************)
C24_CallExpressionsContribute ==
    SuccessfulRun =>
        \A S \in ModuleIds : \A f \in FilesOf(S) : \A st \in Range(Text(f)) :
            (/\ f \notin parseFails
             /\ st.kind \in {"dynamic", "require"}
             /\ IsRelativeSpecifier(st.spec)
             /\ CrossModule(f, st)) =>
                \E i \in 1..Len(contributed[f]) :
                    contributed[f][i].target = TargetOfSpec(f, st.spec)

(***************************************************************************)
(* C25: the source and the target of every edge are ids of emitted         *)
(* modules; an import that resolves to a file that is no discovered        *)
(* production file of a module (a test file, a file of an excluded         *)
(* directory, a file outside both roots, a file that is no source file)    *)
(* creates no edge and no module.                                          *)
(***************************************************************************)
\* the files that are in no module
ForeignFiles == {FileHelpersTest, FileDep, FileK, FileNotes}

EndpointsAreModules ==
    \A S \in DOMAIN moduleDependencies :
        /\ S \in ModuleIds
        /\ Range(moduleDependencies[S].imports) \subseteq ModuleIds
        /\ Range(moduleDependencies[S].importedBy) \subseteq ModuleIds
        /\ \A d \in 1..Len(moduleDependencies[S].importDetails) :
              moduleDependencies[S].importDetails[d].module \in ModuleIds

C25_NoDanglingEndpoints ==
    /\ EndpointsAreModules
    /\ \A i \in 1..Len(modules) : \A j \in 1..Len(modules[i].files) :
          modules[i].files[j].absolutePath \notin ForeignFiles
    /\ \A f \in Writable :
          (\A st \in Range(Text(f)) :
               ResolveImportPath(st.spec, DirName(f)) \in ForeignFiles)
              => contributed[f] = <<>>
    /\ output # NoOutput =>
          LET nodes == output[1].modules
              ids == {nodes[i].id : i \in 1..Len(nodes)}
          IN  \A i \in 1..Len(nodes) :
                  /\ Range(nodes[i].imports) \subseteq ids
                  /\ Range(nodes[i].importedBy) \subseteq ids
                  /\ EdgeTargets(nodes[i]) \subseteq ids

\* x.ts imports from a file of node_modules and from helpers.ts: the one
\* edge of the document is apps/a -> libs/util
C25_Witness ==
    /\ SuccessfulRun
    /\ content[FileX] = <<StDepFile, StFoo>>
    /\ ResolveImportPath(StDepFile.spec, DirName(FileX)) = FileDep
    /\ \A i \in 1..Len(output[1].modules) :
          EdgeTargets(output[1].modules[i]) =
              IF output[1].modules[i].id = <<"apps", <<"a">> >>
              THEN {<<"libs", <<"util">> >>}
              ELSE {}

(***************************************************************************)
(* C26: after every step of edge aggregation, for all modules S and T: T   *)
(* is in imports(S) if and only if S is in importedBy(T), if and only if   *)
(* importDetails(S) has an entry for T; every such entry has a count of at *)
(* least 1.                                                                *)
(***************************************************************************)
C26_ThreeViewsAgree ==
    \A S \in DOMAIN moduleDependencies :
        /\ \A T \in DOMAIN moduleDependencies :
              /\ Contains(moduleDependencies[S].imports, T)
                    <=> Contains(moduleDependencies[T].importedBy, S)
              /\ Contains(moduleDependencies[S].imports, T) <=> HasEdge(S, T)
        /\ \A d \in 1..Len(moduleDependencies[S].importDetails) :
              /\ moduleDependencies[S].importDetails[d].count >= 1
              /\ moduleDependencies[S].importDetails[d].module
                    \in DOMAIN moduleDependencies

\* in the middle of the imports of a file: one edge is recorded, with count
\* 1, and a second import into another module is still to be aggregated
C26_Witness ==
    /\ pc = "aggregate"
    /\ Len(imports) = 1
    /\ IsDependency(sourceModuleId, FileToModule(modules, Head(imports).path))
    /\ \E T \in DOMAIN moduleDependencies :
          /\ HasEdge(sourceModuleId, T)
          /\ EdgeOf(sourceModuleId, T).count = 1
          /\ T # FileToModule(modules, Head(imports).path)

(***************************************************************************)
(* C27: in every written document totalFiles = codeFiles + testFiles,      *)
(* totalModules = apps + libs (every module is of type app or lib), the    *)
(* sum of fileCount over the modules is codeFiles and the sum of           *)
(* linesOfCode over the modules is totalCodeLines.                         *)
(***************************************************************************)
C27_TotalsAgree ==
    output # NoOutput =>
        LET stats == output[1].metadata.stats
            nodes == output[1].modules
        IN  /\ stats.totalFiles = stats.codeFiles + stats.testFiles
            /\ stats.totalModules = stats.apps + stats.libs
            /\ stats.totalModules = Len(nodes)
            /\ \A i \in 1..Len(nodes) : nodes[i].type \in {"app", "lib"}
            /\ SumSeq([i \in 1..Len(nodes) |-> nodes[i].fileCount]) = stats.codeFiles
            /\ SumSeq([i \in 1..Len(nodes) |-> nodes[i].linesOfCode]) = stats.totalCodeLines

\* a document with test files, app and lib modules, and files of more than
\* one line
C27_Witness ==
    /\ output # NoOutput
    /\ output[1].metadata.stats.testFiles >= 1
    /\ output[1].metadata.stats.apps >= 2
    /\ output[1].metadata.stats.libs >= 1
    /\ output[1].metadata.stats.totalCodeLines >= output[1].metadata.stats.codeFiles + 2

(***************************************************************************)
(* C28: edge aggregation does not depend on the processing order: with the *)
(* file list and the import records of each file in any order,             *)
(* buildModuleDependencyGraph gives the same (source, target) pairs, the   *)
(* same count and the same set of symbols per pair, and the same imports   *)
(* and importedBy sets per module as in the order of the traversal.        *)
(***************************************************************************)
\* the edges of a module of a document, without their order
EdgeSet(node) ==
    {[module |-> node.importDetails[d].module,
      count |-> node.importDetails[d].count,
      symbols |-> Range(node.importDetails[d].symbols)] :
        d \in 1..Len(node.importDetails)}

NodeOf(doc, id) ==
    doc.modules[CHOOSE i \in 1..Len(doc.modules) : doc.modules[i].id = id]

C28_OrderIndependent ==
    (second /\ pc = "done") =>
        LET first == prevOutput[1]
            last == output[1]
            ids(doc) == {doc.modules[i].id : i \in 1..Len(doc.modules)}
        IN  /\ ids(first) = ids(last)
            /\ \A id \in ids(first) :
                  /\ EdgeSet(NodeOf(first, id)) = EdgeSet(NodeOf(last, id))
                  /\ Range(NodeOf(first, id).imports) = Range(NodeOf(last, id).imports)
                  /\ Range(NodeOf(first, id).importedBy) = Range(NodeOf(last, id).importedBy)

\* x.ts imports foo and y.ts imports bar from libs/util; in the second run
\* y.ts was processed before x.ts, and libs/util lists its importers in the
\* other order
C28_Witness ==
    /\ second
    /\ pc = "done"
    /\ content[FileX] = <<StFoo>>
    /\ content[FileY] = <<StBar>>
    /\ NodeOf(prevOutput[1], <<"libs", <<"util">> >>).importedBy =
          << <<"apps", <<"x">> >>, <<"apps", <<"y">> >> >>
    /\ NodeOf(output[1], <<"libs", <<"util">> >>).importedBy =
          << <<"apps", <<"y">> >>, <<"apps", <<"x">> >> >>

(***************************************************************************)
(* The focus functions of the visualization (focus-modes.js).  A node id   *)
(* is a string, written as the sequence of its parts between hyphens:      *)
(* 'ui-kit' is <<"ui", "kit">>.  The functions assign the four variables    *)
(* before they touch the drawing, so an exception of the drawing code      *)
(* leaves the assignments in place.                                        *)
(***************************************************************************)
pipeline == <<tree, rerun, resolver, pc, exitCode, allFiles, modules,
              moduleDependencies, fileIdx, sourceModuleId, imports, warnings,
              contributed, output>>

\* the command line tool has not been started
PipelineIdle ==
    /\ nargs = 2
    /\ roots = DefaultRoots
    /\ appKind = "dir"
    /\ libsKind = "dir"
    /\ content = [f \in Writable |-> <<>>]
    /\ parseFails = {}
    /\ RunStart
    /\ output = NoOutput
    /\ now = 0
    /\ second = FALSE
    /\ prevOutput = NoOutput
    /\ extraFiles = {}
    /\ resolveCall = NoCall
    /\ resolveResult = Null

\* the ids of the nodes of the loaded graph: 'ui', 'ui-kit', 'kit-core', 'core'
NodeIds == {<<"ui">>, <<"ui", "kit">>, <<"kit", "core">>, <<"core">>}

\* the edges whose details panel offers the button 'Focus Connection'
EdgePairs == {st \in NodeIds \X NodeIds : st[1] # st[2]}

\* `${sourceId}-${targetId}`
ConnectionKey(sourceId, targetId) == sourceId \o targetId

InitFocus == PipelineIdle /\ UiStart

\* the body of enterFocusMode up to its first return
EnterFocusModeBody(nodeId) ==
    /\ focusMode' = TRUE
    /\ focusedNode' = <<nodeId>>

ExitFocusModeBody ==
    /\ focusMode' = FALSE
    /\ focusedNode' = <<>>

EnterConnectionFocusBody(sourceId, targetId) ==
    /\ connectionFocusMode' = TRUE
    /\ focusedConnection' = <<ConnectionKey(sourceId, targetId)>>
    /\ focusedPair' = <<sourceId, targetId>>

ExitConnectionFocusBody ==
    /\ connectionFocusMode' = FALSE
    /\ focusedConnection' = <<>>
    /\ focusedPair' = <<>>

ToggleFocusMode ==
    \E nodeId \in NodeIds :
        /\ IF focusMode /\ focusedNode = <<nodeId>>
           THEN ExitFocusModeBody
           ELSE EnterFocusModeBody(nodeId)
        /\ focusCall' = [op |-> "toggleFocusMode", args |-> <<nodeId>>]
        /\ UNCHANGED <<connectionFocusMode, focusedConnection, focusedPair, cache,
                       pipeline>>

EnterFocusMode ==
    \E nodeId \in NodeIds :
        /\ EnterFocusModeBody(nodeId)
        /\ focusCall' = [op |-> "enterFocusMode", args |-> <<nodeId>>]
        /\ UNCHANGED <<connectionFocusMode, focusedConnection, focusedPair, cache,
                       pipeline>>

ExitFocusMode ==
    /\ ExitFocusModeBody
    /\ focusCall' = [op |-> "exitFocusMode", args |-> <<>>]
    /\ UNCHANGED <<connectionFocusMode, focusedConnection, focusedPair, cache, pipeline>>

ToggleConnectionFocus ==
    \E st \in EdgePairs :
        LET sourceId == st[1]
            targetId == st[2]
            connectionKey == ConnectionKey(sourceId, targetId)
        IN  /\ IF connectionFocusMode /\ focusedConnection = <<connectionKey>>
               THEN ExitConnectionFocusBody
               ELSE EnterConnectionFocusBody(sourceId, targetId)
            /\ focusCall' = [op |-> "toggleConnectionFocus", args |-> <<sourceId, targetId>>]
            /\ UNCHANGED <<focusMode, focusedNode, cache, pipeline>>

ExitConnectionFocus ==
    /\ ExitConnectionFocusBody
    /\ focusCall' = [op |-> "exitConnectionFocus", args |-> <<>>]
    /\ UNCHANGED <<focusMode, focusedNode, cache, pipeline>>

NextFocus ==
    \/ ToggleFocusMode
    \/ EnterFocusMode
    \/ ExitFocusMode
    \/ ToggleConnectionFocus
    \/ ExitConnectionFocus

SpecFocus == InitFocus /\ [][NextFocus]_vars

(***************************************************************************)
(* C29 (as claimed): focusMode is true exactly when focusedNode is not     *)
(* null; toggleFocusMode(n) while focused on n leaves the view unfocused,   *)
(* and while unfocused or focused on another node leaves it focused on n;  *)
(* the same for connectionFocusMode and focusedConnection under            *)
(* toggleConnectionFocus(s, t): unfocused after it when the view was       *)
(* focused on the connection (s, t), focused on (s, t) in every other case. *)
(***************************************************************************)
FocusFlagsAgree ==
    /\ focusMode <=> focusedNode # <<>>
    /\ connectionFocusMode <=> focusedConnection # <<>>

NodeToggled ==
    focusCall'.op = "toggleFocusMode" =>
        LET n == focusCall'.args[1] IN
        IF focusMode /\ focusedNode = <<n>>
        THEN ~focusMode' /\ focusedNode' = <<>>
        ELSE focusMode' /\ focusedNode' = <<n>>

ConnectionToggled ==
    focusCall'.op = "toggleConnectionFocus" =>
        LET s == focusCall'.args[1]
            t == focusCall'.args[2]
        IN  IF connectionFocusMode /\ focusedPair = <<s, t>>
            THEN ~connectionFocusMode' /\ focusedConnection' = <<>>
            ELSE /\ connectionFocusMode'
                 /\ focusedConnection' = <<ConnectionKey(s, t)>>

C29_FocusToggles ==
    /\ []FocusFlagsAgree
    /\ [][NodeToggled]_vars
    /\ [][ConnectionToggled]_vars

(***************************************************************************)
(* The file loads of the visualization (part_005): processFile, the        *)
(* callbacks it leaves behind (FileReader events and timers) and           *)
(* validateAndLoadGraph with its cache.  A callback runs some time after   *)
(* it was registered; callbacks of other loads may run in between.         *)
(***************************************************************************)
\* graphDataCache.size >= 5
CacheLimit == 5

\* loads that may be in flight at a time
MaxPending == 2

\* a document in the nodes/edges format with one module of n lines
GraphDocument(n) ==
    [metadata |-> [stats |-> [totalModules |-> 1]],
     nodes |-> <<[id |-> <<"m">>, type |-> "app", linesOfCode |-> n, fileCount |-> 1,
                 incomingCount |-> 0, outgoingCount |-> 0]>>,
     edges |-> <<>>]

\* the document the command line tool writes: no nodes, no graph
InterimDocument ==
    [metadata |-> [stats |-> [totalModules |-> 0]], modules |-> <<>>]

\* a File: name, size, lastModified and the text FileReader gives, which is
\* <<d>> for the JSON text of document d and <<>> for text that is not JSON
UploadNames == <<"g1", "g1", "g3", "g4", "g5", "g6">>

\* six files with documents that pass the validation; the second is the
\* first one saved again with another document
GraphUpload(i) ==
    [name |-> <<UploadNames[i], "json">>, size |-> 10,
     lastModified |-> IF i = 2 THEN 2 ELSE 1,
     text |-> <<GraphDocument(IF i \in {2, 4, 6} THEN 2 ELSE 1)>>]

UploadBroken ==
    [name |-> <<"broken", "json">>, size |-> 3, lastModified |-> 1, text |-> <<>>]

UploadInterim ==
    [name |-> <<"interim", "json">>, size |-> 20, lastModified |-> 1,
     text |-> <<InterimDocument>>]

UploadNotes ==
    [name |-> <<"notes", "txt">>, size |-> 10, lastModified |-> 1, text |-> <<>>]

\* the files the user may drop or select; a callback names its file by its
\* place in this list
Uploads ==
    <<GraphUpload(1), GraphUpload(2), GraphUpload(3), GraphUpload(4), GraphUpload(5),
      GraphUpload(6), UploadBroken, UploadInterim, UploadNotes>>

\* file.name.toLowerCase().endsWith('.json')
EndsWithJson(name) == Len(name) >= 2 /\ Lower(Last(name)) = "json"

\* `${file.name}_${file.size}_${file.lastModified}`: the two numbers are the
\* text after the last two underscores, so the string determines the triple
CacheKeyOf(file) == <<file.name, file.size, file.lastModified>>

CacheKeys(c) == [i \in 1..Len(c) |-> c[i].key]

\* graphDataCache.has(cacheKey)
CacheHas(c, cacheKey) == Contains(CacheKeys(c), cacheKey)

\* graphDataCache.get(cacheKey): <<>> for undefined, else <<data>>
CacheGet(c, cacheKey) ==
    IF CacheHas(c, cacheKey)
    THEN <<c[CHOOSE i \in 1..Len(c) : c[i].key = cacheKey].data>>
    ELSE <<>>

\* graphDataCache.set(cacheKey, data): a key the Map holds keeps its place
CacheSet(c, cacheKey, data) ==
    IF CacheHas(c, cacheKey)
    THEN [i \in 1..Len(c) |->
            IF c[i].key = cacheKey THEN [key |-> cacheKey, data |-> data] ELSE c[i]]
    ELSE Append(c, [key |-> cacheKey, data |-> data])

\* lines 252-259: delete the first key of a full Map, then set
CacheValidated(c, cacheKey, data) ==
    CacheSet(IF Len(c) >= CacheLimit THEN Tail(c) ELSE c, cacheKey, data)

Waiting(stage) == {cb \in pending : cb.stage = stage}

\* a callback that has not run; the timer of a cache hit (100 ms) notes the
\* validation timers (200 ms) that were set before it: only these can run
\* before it, a validation timer set later runs later
Callback(stage, file) ==
    [stage |-> stage, file |-> file,
     before |-> IF stage = "cached" THEN {cb.file : cb \in Waiting("validate")} ELSE {}]

InitCache == PipelineIdle /\ UiStart

\* processFile up to its return: a callback is left behind, or nothing
ProcessFile ==
    \E file \in DOMAIN Uploads :
        /\ Cardinality(pending) < MaxPending
        /\ IF ~EndsWithJson(Uploads[file].name)
           THEN UNCHANGED pending
           ELSE IF CacheHas(graphDataCache, CacheKeyOf(Uploads[file]))
                THEN pending' = pending \cup {Callback("cached", file)}
                ELSE pending' = pending \cup {Callback("read", file)}
        /\ UNCHANGED <<graphDataCache, loadResult, focus, pipeline>>

\* reader.onload: the timer of the parsing step is set
ReaderOnLoad ==
    \E cb \in Waiting("read") :
        /\ pending' = (pending \ {cb}) \cup {Callback("parse", cb.file)}
        /\ UNCHANGED <<graphDataCache, loadResult, focus, pipeline>>

\* reader.onerror: showError
ReaderOnError ==
    \E cb \in Waiting("read") :
        /\ pending' = pending \ {cb}
        /\ UNCHANGED <<graphDataCache, loadResult, focus, pipeline>>

\* the first timer: JSON.parse, then the timer of the validation, or showError
ParseTimer ==
    \E cb \in Waiting("parse") :
        /\ IF Uploads[cb.file].text = <<>>
           THEN pending' = pending \ {cb}
           ELSE pending' = (pending \ {cb}) \cup {Callback("validate", cb.file)}
        /\ UNCHANGED <<graphDataCache, loadResult, focus, pipeline>>

\* the second timer: validateAndLoadGraph(jsonData, false, cacheKey)
ValidateTimer ==
    \E cb \in Waiting("validate") :
        LET jsonData == Uploads[cb.file].text[1]
            cacheKey == CacheKeyOf(Uploads[cb.file])
        IN  /\ \A hit \in Waiting("cached") : cb.file \in hit.before
            /\ pending' = pending \ {cb}
            /\ IF ValidateAndLoadGraph(jsonData)
               THEN /\ graphDataCache' = CacheValidated(graphDataCache, cacheKey, jsonData)
                    /\ loadResult' = <<jsonData>>
               ELSE /\ loadResult' = <<>>
                    /\ UNCHANGED graphDataCache
            /\ UNCHANGED <<focus, pipeline>>

\* the timer of a cache hit: validateAndLoadGraph(graphDataCache.get(cacheKey),
\* true, cacheKey); with undefined for the data, data.nodes throws inside the
\* try, the catch shows the error and null is returned
CachedTimer ==
    \E cb \in Waiting("cached") :
        LET cachedData == CacheGet(graphDataCache, CacheKeyOf(Uploads[cb.file]))
        IN  /\ pending' = pending \ {cb}
            /\ loadResult' = cachedData
            /\ UNCHANGED <<graphDataCache, focus, pipeline>>

NextCache ==
    \/ ProcessFile
    \/ ReaderOnLoad
    \/ ReaderOnError
    \/ ParseTimer
    \/ ValidateTimer
    \/ CachedTimer

SpecCache == InitCache /\ [][NextCache]_vars

(***************************************************************************)
(* C30 (as claimed): graphDataCache never holds more than 5 entries and    *)
(* holds only documents that passed validation; an insertion into a full   *)
(* cache evicts the key inserted earliest; the load of a file whose key is *)
(* cached gives the cached document and leaves the cache as it was.        *)
(***************************************************************************)
CacheWithinLimit == Len(graphDataCache) <= 5

CacheHoldsValidated ==
    \A i \in 1..Len(graphDataCache) : ValidateAndLoadGraph(graphDataCache[i].data)

\* a step that inserts into a cache of 5: the four later keys stay, and the
\* earliest key is gone unless it is the key inserted
EarliestEvicted ==
    (Len(graphDataCache) = 5 /\ graphDataCache' # graphDataCache) =>
        /\ \A i \in 2..5 : CacheHas(graphDataCache', graphDataCache[i].key)
        /\ CacheHas(graphDataCache', graphDataCache[1].key) =>
              graphDataCache'[Len(graphDataCache')].key = graphDataCache[1].key

\* a step that ends the load of a file whose key processFile found cached
CachedReused ==
    \A cb \in pending \ pending' :
        cb.stage = "cached" =>
            /\ graphDataCache' = graphDataCache
            /\ loadResult' # <<>>
            /\ loadResult' = CacheGet(graphDataCache', CacheKeyOf(Uploads[cb.file]))

C30_CacheOfFive ==
    /\ [](CacheWithinLimit /\ CacheHoldsValidated)
    /\ [][EarliestEvicted]_vars
    /\ [][CachedReused]_vars

====
